---- MODULE Spec2Model ----
(***************************************************************************)
(* Resilience layer of the autonomous agent (src/resilience.py):           *)
(* Bulkhead, CircuitBreaker, RetryPolicy and ResilienceManager.            *)
(*                                                                         *)
(* The coroutines run on one asyncio event loop, so every action below is  *)
(* the code between two suspension points (await) of one coroutine.        *)
(* Each component has its own specification; the variables of the other    *)
(* components stay at their constructed values.                            *)
(***************************************************************************)
EXTENDS Integers, Sequences, FiniteSets, TLC

VARIABLES
    \* ---- Bulkhead (resilience.py:181-232)
    max_concurrent,    \* Bulkhead.max_concurrent
    max_queued,        \* Bulkhead.max_queued
    sem_value,         \* Bulkhead.semaphore._value
    sem_waiters,       \* Bulkhead.semaphore._waiters: callers in FIFO order
    sem_done,          \* waiters whose future has a result set (woken, not resumed)
    active_count,      \* Bulkhead.active_count
    queued_count,      \* Bulkhead.queued_count
    total_processed,   \* Bulkhead.total_processed
    total_rejected,    \* Bulkhead.total_rejected
    bpc,               \* position of each caller's execute() coroutine
    bh_calls,          \* history: number of execute() calls made
    bh_invoked,        \* history: number of invocations of the wrapped function
    bh_path,           \* history: the positions each caller's current call went through
    \* ---- CircuitBreaker (resilience.py:34-120)
    config,            \* CircuitBreaker.config (a CircuitBreakerConfig)
    state,             \* CircuitBreaker.state
    failure_count,     \* CircuitBreaker.failure_count
    success_count,     \* CircuitBreaker.success_count
    last_failure_time, \* CircuitBreaker.last_failure_time ("None" or a time)
    last_state_change, \* CircuitBreaker.last_state_change
    failure_history,   \* CircuitBreaker.failure_history
    now,               \* the clock datetime.utcnow() reads, in seconds
    cpc,               \* position of each caller's call() coroutine
    cb_calls,          \* history: number of call() calls made
    cb_invoked,        \* history: number of invocations of the wrapped function
    opened_at,         \* history: the time the breaker last moved to OPEN, or -1
    rejected_at,       \* history: the time of the last 'is OPEN' exception, or -1
    state_path,        \* history: the states the breaker went through
    fail_log,          \* history: the time of every failed call, never trimmed
    half_succ,         \* history: calls that succeeded since HALF_OPEN was entered
    fresh_fails,       \* history: failed calls since the last success while
                       \* CLOSED, or -1 before the first such success
    \* ---- RetryPolicy (resilience.py:123-178)
    max_attempts,      \* RetryPolicy.max_attempts
    jitter,            \* RetryPolicy.jitter
    attempt,           \* execute(): the loop variable
    last_exception,    \* execute(): the local last_exception
    rpc,               \* position of the execute() coroutine
    r_delay,           \* the delay of the current sleep, in half seconds
    r_result,          \* what execute() returned, or "None"
    r_raised,          \* what execute() raised, or "None"
    r_invoked,         \* history: number of invocations of the wrapped function
    r_outcomes,        \* history: how each finished attempt ended
    r_sleeps,          \* history: number of backoff waits begun
    \* ---- ResilienceManager.resilient_call (resilience.py:296-337)
    rc_sel,            \* the patterns the caller selected
    rc_in,             \* the positional and keyword arguments the caller passed
    wrapped_func,      \* resilient_call(): the local wrapped_func
    original_func,     \* resilient_call(): the local original_func
    args,              \* resilient_call(): the local args
    kwargs,            \* resilient_call(): the local kwargs
    rc_pc,             \* position of the resilient_call() coroutine
    rc_callee,         \* the call being made: callable and arguments
    rc_stack,          \* the pattern calls awaiting their wrapped function
    rc_exc,            \* the exception being propagated
    rc_value,          \* the value being returned
    rc_result,         \* what resilient_call() returned, or "None"
    rc_raised,         \* what resilient_call() raised, or "None"
    rc_calls,          \* history: number of resilient_call() calls made
    func_got,          \* history: the arguments of each invocation of func
    \* ---- MetricsMonitor (metrics_monitor.py:37-278)
    metrics,           \* MetricsMonitor.metrics: name -> series of points
    baselines,         \* MetricsMonitor.baselines: name -> PerformanceBaseline
    alerts,            \* MetricsMonitor.alerts
    retention_hours,   \* MetricsMonitor.retention_hours, in clock ticks
    mm_now,            \* the clock datetime.utcnow() reads in record_metric
    mm_records,        \* history: number of record_metric() calls made
    mm_last,           \* history: the arguments of the last record_metric()
    \* ---- SelfLearner (self_learning.py:42-348)
    experiences,       \* SelfLearner.experiences
    knowledge_base,    \* SelfLearner.knowledge_base: key -> Knowledge
    strategy_performance, \* SelfLearner.strategy_performance, its entries in
                       \* the dict's insertion order
    sl_asked,          \* history: the description of the last suggest_strategy()
    sl_suggested,      \* history: what the last suggest_strategy() returned
    sl_asks,           \* history: number of suggest_strategy() calls made
    \* ---- AutonomousAgent (agent.py:33-185)
    memory,            \* AutonomousAgent.memory
    task,              \* process_task(): the Task it was given
    plan,              \* process_task(): the steps of the local plan
    results,           \* process_task(): the local results
    ag_pc,             \* position of the process_task() coroutine
    iteration,         \* run_autonomous(): the local iteration
    max_iterations,    \* run_autonomous(): the argument max_iterations
    ra_pc,             \* position of the run_autonomous() coroutine
    ra_result,         \* what run_autonomous() returned
    ag_ran,            \* history: the plan steps _execute_step was called on
    ag_exc,            \* history: the text of the exception process_task caught
    ag_calls,          \* history: number of direct process_task() calls
    ra_started,        \* history: process_task() calls of this run_autonomous()
    \* ---- RefactoringLoop (refactoring_loop.py:16-264)
    rf_file,           \* what the file at filepath holds
    rf_backups,        \* what the backup files written so far hold
    refactoring_history, \* RefactoringLoop.refactoring_history
    rf_pc,             \* where the auto_refactor() call stands
    original_code,     \* auto_refactor: original_code
    refactored,        \* auto_refactor: refactored
    rf_results         \* history: what the auto_refactor() calls returned

bhVars == <<max_concurrent, max_queued, sem_value, sem_waiters, sem_done,
            active_count, queued_count, total_processed, total_rejected,
            bpc, bh_calls, bh_invoked, bh_path>>

cbVars == <<config, state, failure_count, success_count, last_failure_time,
            last_state_change, failure_history, now, cpc, cb_calls, cb_invoked,
            opened_at, rejected_at, state_path, fail_log, half_succ, fresh_fails>>

rpVars == <<max_attempts, jitter, attempt, last_exception, rpc, r_delay,
            r_result, r_raised, r_invoked, r_outcomes, r_sleeps>>

rcVars == <<rc_sel, rc_in, wrapped_func, original_func, args, kwargs, rc_pc,
            rc_callee, rc_stack, rc_exc, rc_value, rc_result, rc_raised,
            rc_calls, func_got>>

mmVars == <<metrics, baselines, alerts, retention_hours, mm_now, mm_records,
            mm_last>>

\* The resilience patterns, and the agent's other modules.
resVars == <<bhVars, cbVars, rpVars, rcVars>>
slVars == <<experiences, knowledge_base, strategy_performance, sl_asked,
            sl_suggested, sl_asks>>

agVars == <<memory, task, plan, results, ag_pc, iteration, max_iterations,
            ra_pc, ra_result, ag_ran, ag_exc, ag_calls, ra_started>>

rfVars == <<rf_file, rf_backups, refactoring_history, rf_pc, original_code,
            refactored, rf_results>>

appVars == <<mmVars, slVars, agVars, rfVars>>

vars == <<resVars, appVars>>

\* What a step of one component leaves alone: the other components.
BhFrame == UNCHANGED <<cbVars, rpVars, rcVars, appVars>>
CbFrame == UNCHANGED <<bhVars, rpVars, rcVars, appVars>>
RpFrame == UNCHANGED <<bhVars, cbVars, rcVars, appVars>>
MmFrame == UNCHANGED <<resVars, slVars, agVars, rfVars>>
SlFrame == UNCHANGED <<resVars, mmVars, agVars, rfVars>>
AgFrame == UNCHANGED <<resVars, mmVars, slVars, rfVars>>
RfFrame == UNCHANGED <<resVars, mmVars, slVars, agVars>>

(***************************************************************************)
(* Bounds of the model.                                                    *)
(***************************************************************************)
NumCallers == 3        \* concurrent callers of one Bulkhead
NumCbCallers == 2      \* concurrent callers of one CircuitBreaker
MaxCalls == 4          \* execute() calls made in one behaviour
MaxConcurrent == 2     \* largest max_concurrent constructed
MaxQueued == 1         \* largest max_queued constructed
MaxCbCalls == 3        \* call() calls made in one behaviour
MaxFailureThreshold == 2
MaxSuccessThreshold == 2
MaxTimeout == 1        \* largest timeout_seconds constructed
MaxWindow == 2         \* largest window_seconds constructed
MaxAttempts == 3       \* largest max_attempts constructed
MaxRcCalls == 2        \* resilient_call() calls made in one behaviour
RecursionLimit == 3    \* nested pattern calls the interpreter allows
MaxTime == 2           \* seconds the clock runs
MaxRecords == 3        \* record_metric() calls made in one behaviour
MaxValue == 3          \* largest metric value recorded
MaxRetention == 2      \* largest retention_hours constructed, in clock ticks
MaxExperiences == 3    \* record_experience() calls made in one behaviour
MaxAsks == 1           \* suggest_strategy() calls made in one behaviour
MaxPlanLen == 2        \* steps of the longest plan the LLM returns
MaxIterations == 2     \* largest max_iterations passed to run_autonomous
MaxTasks == 1          \* direct process_task() calls made in one behaviour
MaxFuncs == 5          \* most function definitions in one source text
MaxRefactors == 2      \* auto_refactor() calls made in one behaviour
SeriesMaxLen == 11     \* points one series holds: the deque's maxlen, which
                       \* is 10000 in the code (metrics_monitor.py:45, 274)

(***************************************************************************)
(* Constructor defaults (the values a component not under study keeps).    *)
(***************************************************************************)
DefaultMaxConcurrent == 10
DefaultMaxQueued == 100
DefaultFailureThreshold == 5
DefaultSuccessThreshold == 2
DefaultTimeoutSeconds == 60
DefaultWindowSeconds == 300
DefaultMaxAttempts == 3
DefaultInitialDelay == 1
DefaultMaxDelay == 60
DefaultBackoffFactor == 2
MinBaselineSamples == 10     \* establish_baseline: len(...) < 10
DefaultPercentile == 95      \* establish_baseline: percentile=0.95, in percent
DefaultRetentionHours == 24
BestStrategiesKept == 5      \* _optimize_strategies: [:5]
DefaultMaxIterations == 10   \* run_autonomous: max_iterations=10

Callers == 1..NumCallers

\* A caller between two execute() calls.
BhRest == {"idle", "returned", "raised", "rejected"}

(***************************************************************************)
(* asyncio.Semaphore as the Bulkhead uses it.                              *)
(***************************************************************************)
\* Semaphore.locked(): no slot, or a waiter (woken or not) still queued.
SemLocked(value, waiters) == value = 0 \/ Len(waiters) > 0

\* The waiters whose future is not done yet, in queue order.
SemPending(waiters, done) == SelectSeq(waiters, LAMBDA w : w \notin done)

\* Semaphore._wake_up_next() applied to <<value, waiters, done>>: the first
\* waiter that is not done takes one slot and gets its future's result set.
WakeUpNext(value, waiters, done) ==
    LET pending == SemPending(waiters, done)
    IN  IF Len(pending) = 0
        THEN [value |-> value, done |-> done]
        ELSE [value |-> value - 1, done |-> done \cup {Head(pending)}]

\* A variant of release() that adds the slot and wakes nobody.
SemReleaseNoWakeM(value, waiters, done) == [value |-> value + 1, done |-> done]

\* Semaphore.release(): one more slot, handed to the next waiter if any.
SemRelease(value, waiters, done) == WakeUpNext(value + 1, waiters, done)

\* Semaphore.acquire() may return at once: "if not self.locked()".
SemAcquireFree(value, waiters) == ~SemLocked(value, waiters)

(***************************************************************************)
(* Bulkhead.__init__                                                       *)
(***************************************************************************)
\* A variant that sizes the semaphore one slot too large.
BhNewExtraSlotM(mc, mq) ==
    /\ max_concurrent = mc
    /\ max_queued = mq
    /\ sem_value = mc + 1
    /\ sem_waiters = <<>>
    /\ sem_done = {}
    /\ active_count = 0
    /\ queued_count = 0
    /\ total_processed = 0
    /\ total_rejected = 0
    /\ bpc = [c \in Callers |-> "idle"]
    /\ bh_path = [c \in Callers |-> <<>>]
    /\ bh_calls = 0
    /\ bh_invoked = 0

BhNew(mc, mq) ==
    /\ max_concurrent = mc
    /\ max_queued = mq
    /\ sem_value = mc
    /\ sem_waiters = <<>>
    /\ sem_done = {}
    /\ active_count = 0
    /\ queued_count = 0
    /\ total_processed = 0
    /\ total_rejected = 0
    /\ bpc = [c \in Callers |-> "idle"]
    /\ bh_path = [c \in Callers |-> <<>>]
    /\ bh_calls = 0
    /\ bh_invoked = 0

BhParked == BhNew(DefaultMaxConcurrent, DefaultMaxQueued)

(***************************************************************************)
(* Bulkhead.execute, first segment: the queue-full check, queued_count += 1*)
(* and the entry of "async with self.semaphore".                           *)
(***************************************************************************)
\* A variant that handles the rejection inside the try block of line 206,
\* so that the handler of line 218 runs for it.
BhRejectInTryM(c) ==
    /\ BhFrame
    /\ bpc[c] \in BhRest
    /\ bh_calls < MaxCalls
    /\ queued_count >= max_queued
    /\ total_rejected' = total_rejected + 1
    /\ queued_count' = queued_count - 1
    /\ bpc' = [bpc EXCEPT ![c] = "rejected"]
    /\ bh_path' = [bh_path EXCEPT ![c] = <<"rejected">>]
    /\ bh_calls' = bh_calls + 1
    /\ UNCHANGED <<max_concurrent, max_queued, sem_value, sem_waiters, sem_done,
                   active_count, total_processed, bh_invoked>>

\* lines 200-202: the queue is full, the call is rejected.
BhReject(c) ==
    /\ BhFrame
    /\ bpc[c] \in BhRest
    /\ bh_calls < MaxCalls
    /\ queued_count >= max_queued
    /\ total_rejected' = total_rejected + 1
    /\ bpc' = [bpc EXCEPT ![c] = "rejected"]
    /\ bh_path' = [bh_path EXCEPT ![c] = <<"rejected">>]
    /\ bh_calls' = bh_calls + 1
    /\ UNCHANGED <<max_concurrent, max_queued, sem_value, sem_waiters, sem_done,
                   active_count, queued_count, total_processed, bh_invoked>>

\* lines 204-212 with a free semaphore: acquire() returns without suspending,
\* the counters move and the wrapped function is invoked.
BhEnterFree(c) ==
    /\ BhFrame
    /\ bpc[c] \in BhRest
    /\ bh_calls < MaxCalls
    /\ ~(queued_count >= max_queued)
    /\ SemAcquireFree(sem_value, sem_waiters)
    /\ sem_value' = sem_value - 1
    /\ active_count' = active_count + 1
    /\ queued_count' = (queued_count + 1) - 1
    /\ bpc' = [bpc EXCEPT ![c] = "running"]
    /\ bh_path' = [bh_path EXCEPT ![c] = <<"running">>]
    /\ bh_calls' = bh_calls + 1
    /\ bh_invoked' = bh_invoked + 1
    /\ UNCHANGED <<max_concurrent, max_queued, sem_waiters, sem_done,
                   total_processed, total_rejected>>

\* lines 204-207 with a locked semaphore: the caller queues on a future.
BhEnterWait(c) ==
    /\ BhFrame
    /\ bpc[c] \in BhRest
    /\ bh_calls < MaxCalls
    /\ ~(queued_count >= max_queued)
    /\ ~SemAcquireFree(sem_value, sem_waiters)
    /\ queued_count' = queued_count + 1
    /\ sem_waiters' = Append(sem_waiters, c)
    /\ bpc' = [bpc EXCEPT ![c] = "waiting"]
    /\ bh_path' = [bh_path EXCEPT ![c] = <<"waiting">>]
    /\ bh_calls' = bh_calls + 1
    /\ UNCHANGED <<max_concurrent, max_queued, sem_value, sem_done, active_count,
                   total_processed, total_rejected, bh_invoked>>

(***************************************************************************)
(* A woken waiter resumes inside acquire(), leaves the waiters queue,      *)
(* passes a spare slot on, and runs lines 208-212.                         *)
(***************************************************************************)
BhResume(c) ==
    /\ BhFrame
    /\ bpc[c] = "waiting"
    /\ c \in sem_done
    /\ LET waiters == SelectSeq(sem_waiters, LAMBDA w : w # c)
           done == sem_done \ {c}
           woke == IF sem_value > 0
                   THEN WakeUpNext(sem_value, waiters, done)
                   ELSE [value |-> sem_value, done |-> done]
       IN  /\ sem_waiters' = waiters
           /\ sem_value' = woke.value
           /\ sem_done' = woke.done
    /\ active_count' = active_count + 1
    /\ queued_count' = queued_count - 1
    /\ bpc' = [bpc EXCEPT ![c] = "running"]
    /\ bh_path' = [bh_path EXCEPT ![c] = Append(@, "running")]
    /\ bh_invoked' = bh_invoked + 1
    /\ UNCHANGED <<max_concurrent, max_queued, total_processed, total_rejected,
                   bh_calls>>

(***************************************************************************)
(* The wrapped function returns: lines 213-216 and the semaphore's exit.   *)
(***************************************************************************)
BhFuncReturn(c) ==
    /\ BhFrame
    /\ bpc[c] = "running"
    /\ total_processed' = total_processed + 1
    /\ active_count' = active_count - 1
    /\ LET rel == SemRelease(sem_value, sem_waiters, sem_done)
       IN  /\ sem_value' = rel.value
           /\ sem_done' = rel.done
    /\ bpc' = [bpc EXCEPT ![c] = "returned"]
    /\ bh_path' = [bh_path EXCEPT ![c] = Append(@, "returned")]
    /\ UNCHANGED <<max_concurrent, max_queued, sem_waiters, queued_count,
                   total_rejected, bh_calls, bh_invoked>>

(***************************************************************************)
(* The wrapped function raises an Exception: the finally of line 216, the  *)
(* semaphore's exit, then the handler of lines 217-219.                    *)
(***************************************************************************)
BhFuncRaise(c) ==
    /\ BhFrame
    /\ bpc[c] = "running"
    /\ active_count' = active_count - 1
    /\ LET rel == SemRelease(sem_value, sem_waiters, sem_done)
       IN  /\ sem_value' = rel.value
           /\ sem_done' = rel.done
    /\ queued_count' = queued_count - 1
    /\ bpc' = [bpc EXCEPT ![c] = "raised"]
    /\ bh_path' = [bh_path EXCEPT ![c] = Append(@, "raised")]
    /\ UNCHANGED <<max_concurrent, max_queued, sem_waiters, total_processed,
                   total_rejected, bh_calls, bh_invoked>>

BhNext ==
    \E c \in Callers :
        \/ BhReject(c)
        \/ BhEnterFree(c)
        \/ BhEnterWait(c)
        \/ BhResume(c)
        \/ BhFuncReturn(c)
        \/ BhFuncRaise(c)

(***************************************************************************)
(* CircuitState                                                            *)
(***************************************************************************)
CLOSED == "closed"
OPEN == "open"
HALF_OPEN == "half_open"
CircuitState == {CLOSED, OPEN, HALF_OPEN}

CbCallers == 1..NumCbCallers

\* A caller between two call() calls.
CbRest == {"idle", "returned", "raised", "rejected"}

\* CircuitBreakerConfig
CircuitBreakerConfig(ft, st, ts, ws) ==
    [failure_threshold |-> ft, success_threshold |-> st,
     timeout_seconds |-> ts, window_seconds |-> ws]

\* The fields of the breaker that its methods read and write.
CbSelf ==
    [state |-> state, failure_count |-> failure_count,
     success_count |-> success_count, last_failure_time |-> last_failure_time,
     last_state_change |-> last_state_change, failure_history |-> failure_history]

\* The methods' writes stored back in the breaker.
CbStore(self) ==
    /\ state' = self.state
    /\ failure_count' = self.failure_count
    /\ success_count' = self.success_count
    /\ last_failure_time' = self.last_failure_time
    /\ last_state_change' = self.last_state_change
    /\ failure_history' = self.failure_history

(***************************************************************************)
(* CircuitBreaker.call, lines 54-62: the gate. The result says whether the *)
(* call goes on to the wrapped function and what the breaker then holds.   *)
(***************************************************************************)
\* A variant that lets a call through once timeout_seconds have passed,
\* not only after more than that.
CallGateM(self, cfg, t) ==
    IF self.state = OPEN
    THEN IF t - self.last_state_change >= cfg.timeout_seconds
         THEN [pass |-> TRUE,
               self |-> [self EXCEPT !.state = HALF_OPEN, !.success_count = 0]]
         ELSE [pass |-> FALSE, self |-> self]
    ELSE [pass |-> TRUE, self |-> self]

\* A variant that raises 'is OPEN' inside the try block of line 65, so that
\* the handler of line 70 records the rejection as a failure.
CallGateInTryM(self, cfg, t) ==
    IF self.state = OPEN
    THEN IF t - self.last_state_change > cfg.timeout_seconds
         THEN [pass |-> TRUE,
               self |-> [self EXCEPT !.state = HALF_OPEN, !.success_count = 0]]
         ELSE [pass |-> FALSE,
               self |-> [self EXCEPT !.last_failure_time = t,
                                     !.failure_history = Append(@, t)]]
    ELSE [pass |-> TRUE, self |-> self]

CallGate(self, cfg, t) ==
    IF self.state = OPEN
    THEN IF t - self.last_state_change > cfg.timeout_seconds
         THEN [pass |-> TRUE,
               self |-> [self EXCEPT !.state = HALF_OPEN, !.success_count = 0]]
         ELSE [pass |-> FALSE, self |-> self]
    ELSE [pass |-> TRUE, self |-> self]

(***************************************************************************)
(* CircuitBreaker._on_success, lines 73-87                                 *)
(***************************************************************************)
OnSuccessAnyStateM(self, cfg, t) ==
    IF self.state # CLOSED
    THEN LET n == self.success_count + 1
         IN  IF n >= cfg.success_threshold
             THEN [self EXCEPT !.state = CLOSED, !.failure_count = 0,
                               !.success_count = 0, !.last_state_change = t]
             ELSE [self EXCEPT !.success_count = n]
    ELSE [self EXCEPT !.failure_count = 0]

OnSuccessLateM(self, cfg, t) ==
    IF self.state = HALF_OPEN
    THEN LET n == self.success_count + 1
         IN  IF n > cfg.success_threshold
             THEN [self EXCEPT !.state = CLOSED, !.failure_count = 0,
                               !.success_count = 0, !.last_state_change = t]
             ELSE [self EXCEPT !.success_count = n]
    ELSE [self EXCEPT !.failure_count = 0]

OnSuccess(self, cfg, t) ==
    IF self.state = HALF_OPEN
    THEN LET n == self.success_count + 1
         IN  IF n >= cfg.success_threshold
             THEN [self EXCEPT !.state = CLOSED, !.failure_count = 0,
                               !.success_count = 0, !.last_state_change = t]
             ELSE [self EXCEPT !.success_count = n]
    ELSE [self EXCEPT !.failure_count = 0]

(***************************************************************************)
(* CircuitBreaker._on_failure, lines 89-109                                *)
(***************************************************************************)
\* line 96: the failures newer than the cutoff, in order.
KeepNewerAllM(history, cutoff) == history

KeepNewer(history, cutoff) == SelectSeq(history, LAMBDA f : f > cutoff)

OnFailure(self, cfg, t) ==
    LET cutoff == t - cfg.window_seconds
        history == KeepNewer(Append(self.failure_history, t), cutoff)
        seen == [self EXCEPT !.last_failure_time = t, !.failure_history = history]
    IN  IF self.state = HALF_OPEN
        THEN [seen EXCEPT !.state = OPEN, !.last_state_change = t]
        ELSE IF self.state = CLOSED
        THEN IF Len(history) >= cfg.failure_threshold
             THEN [seen EXCEPT !.failure_count = Len(history), !.state = OPEN,
                               !.last_state_change = t]
             ELSE [seen EXCEPT !.failure_count = Len(history)]
        ELSE seen

(***************************************************************************)
(* CircuitBreaker.__init__. Time is in whole seconds and a method reads    *)
(* the clock once: the readings of datetime.utcnow() within one method     *)
(* are taken as equal.                                                     *)
(***************************************************************************)
CbNew(cfg) ==
    /\ config = cfg
    /\ state = CLOSED
    /\ failure_count = 0
    /\ success_count = 0
    /\ last_failure_time = "None"
    /\ last_state_change = 0
    /\ failure_history = <<>>
    /\ now = 0
    /\ cpc = [c \in CbCallers |-> "idle"]
    /\ cb_calls = 0
    /\ cb_invoked = 0
    /\ opened_at = -1
    /\ rejected_at = -1
    /\ state_path = <<CLOSED>>
    /\ fail_log = <<>>
    /\ half_succ = 0
    /\ fresh_fails = -1

CbParked ==
    CbNew(CircuitBreakerConfig(DefaultFailureThreshold, DefaultSuccessThreshold,
                               DefaultTimeoutSeconds, DefaultWindowSeconds))

\* The history variables follow the breaker's move from `state` to state'.
CbHistory(succeeded, failed, rejected) ==
    /\ opened_at' = IF state # OPEN /\ state' = OPEN THEN now ELSE opened_at
    /\ rejected_at' = IF rejected THEN now ELSE rejected_at
    /\ state_path' = IF state' # state THEN Append(state_path, state')
                     ELSE state_path
    /\ fail_log' = IF failed THEN Append(fail_log, now) ELSE fail_log
    /\ half_succ' = IF state # HALF_OPEN /\ state' = HALF_OPEN THEN 0
                    ELSE IF succeeded /\ state = HALF_OPEN THEN half_succ + 1
                    ELSE half_succ
    /\ fresh_fails' = IF succeeded /\ state = CLOSED THEN 0
                      ELSE IF failed /\ fresh_fails >= 0 THEN fresh_fails + 1
                      ELSE fresh_fails

(***************************************************************************)
(* CircuitBreaker.call up to "await func(...)" (lines 54-66): either the   *)
(* 'is OPEN' exception or the invocation of the wrapped function.          *)
(***************************************************************************)
CbCallRejected(c) ==
    /\ CbFrame
    /\ cpc[c] \in CbRest
    /\ cb_calls < MaxCbCalls
    /\ LET gate == CallGate(CbSelf, config, now)
       IN  /\ ~gate.pass
           /\ CbStore(gate.self)
    /\ cpc' = [cpc EXCEPT ![c] = "rejected"]
    /\ cb_calls' = cb_calls + 1
    /\ CbHistory(FALSE, FALSE, TRUE)
    /\ UNCHANGED <<config, now, cb_invoked>>

CbCallInvoke(c) ==
    /\ CbFrame
    /\ cpc[c] \in CbRest
    /\ cb_calls < MaxCbCalls
    /\ LET gate == CallGate(CbSelf, config, now)
       IN  /\ gate.pass
           /\ CbStore(gate.self)
    /\ cpc' = [cpc EXCEPT ![c] = "running"]
    /\ cb_calls' = cb_calls + 1
    /\ cb_invoked' = cb_invoked + 1
    /\ CbHistory(FALSE, FALSE, FALSE)
    /\ UNCHANGED <<config, now>>

\* lines 66-68: the wrapped function returned.
CbFuncReturn(c) ==
    /\ CbFrame
    /\ cpc[c] = "running"
    /\ CbStore(OnSuccess(CbSelf, config, now))
    /\ cpc' = [cpc EXCEPT ![c] = "returned"]
    /\ CbHistory(TRUE, FALSE, FALSE)
    /\ UNCHANGED <<config, now, cb_calls, cb_invoked>>

\* lines 69-71: the wrapped function raised an Exception.
CbFuncRaise(c) ==
    /\ CbFrame
    /\ cpc[c] = "running"
    /\ CbStore(OnFailure(CbSelf, config, now))
    /\ cpc' = [cpc EXCEPT ![c] = "raised"]
    /\ CbHistory(FALSE, TRUE, FALSE)
    /\ UNCHANGED <<config, now, cb_calls, cb_invoked>>

\* A second passes on the clock.
CbTick ==
    /\ CbFrame
    /\ now < MaxTime
    /\ now' = now + 1
    /\ UNCHANGED <<config, state, failure_count, success_count, last_failure_time,
                   last_state_change, failure_history, cpc, cb_calls, cb_invoked,
                   opened_at, rejected_at, state_path, fail_log, half_succ,
                   fresh_fails>>

CbNext ==
    \/ \E c \in CbCallers :
        \/ CbCallRejected(c)
        \/ CbCallInvoke(c)
        \/ CbFuncReturn(c)
        \/ CbFuncRaise(c)
    \/ CbTick

(***************************************************************************)
(* RetryPolicy                                                             *)
(***************************************************************************)
\* What the wrapped function may return and the Exceptions it may raise.
Values == {"v1", "v2"}
Exceptions == {"e1", "e2"}

RECURSIVE Power(_, _)
Power(b, n) == IF n = 0 THEN 1 ELSE b * Power(b, n - 1)

Min(a, b) == IF a <= b THEN a ELSE b

\* RetryPolicy.get_delay, lines 142-150, in half seconds: the capped
\* exponential delay times 0.5 + random.random(), a factor in [0.5, 1.5)
\* of which `halves` (1 or 2 half units) stands for the draw.
GetDelay(n, halves) ==
    Min(DefaultInitialDelay * Power(DefaultBackoffFactor, n), DefaultMaxDelay)
        * halves

\* line 161: "for attempt in range(self.max_attempts)" has a next value.
LoopHasNextM(n, max) == n + 1 < max + 1

LoopHasNext(n, max) == n + 1 < max

\* line 171: a wait follows this failed attempt.
WaitsAfterM(n, max) == n < max

WaitsAfter(n, max) == n < max - 1

\* RetryPolicy.__init__
RpNew(ma, jit) ==
    /\ max_attempts = ma
    /\ jitter = jit
    /\ attempt = -1
    /\ last_exception = "None"
    /\ rpc = "idle"
    /\ r_delay = 0
    /\ r_result = "None"
    /\ r_raised = "None"
    /\ r_invoked = 0
    /\ r_outcomes = <<>>
    /\ r_sleeps = 0

RpParked == RpNew(DefaultMaxAttempts, TRUE)

\* The loop moves on after attempt n: the next attempt invokes the wrapped
\* function, or the loop is over and line 178 raises last_exception
\* (raising None, when no attempt was made, is a TypeError).
RpLoop(n, exc) ==
    IF LoopHasNext(n, max_attempts)
    THEN /\ attempt' = n + 1
         /\ rpc' = "calling"
         /\ r_invoked' = r_invoked + 1
         /\ UNCHANGED r_raised
    ELSE /\ rpc' = "raised"
         /\ r_raised' = IF exc = "None" THEN "TypeError" ELSE exc
         /\ UNCHANGED <<attempt, r_invoked>>

\* execute() is called: lines 159-163.
RpExecute ==
    /\ RpFrame
    /\ rpc = "idle"
    /\ last_exception' = "None"
    /\ RpLoop(-1, "None")
    /\ UNCHANGED <<max_attempts, jitter, r_delay, r_result, r_outcomes, r_sleeps>>

\* lines 163-166: the attempt returned v.
RpFuncReturn(v) ==
    /\ RpFrame
    /\ rpc = "calling"
    /\ rpc' = "returned"
    /\ r_result' = v
    /\ r_outcomes' = Append(r_outcomes, [ok |-> TRUE, val |-> v])
    /\ UNCHANGED <<max_attempts, jitter, attempt, last_exception, r_delay,
                   r_raised, r_invoked, r_sleeps>>

\* lines 168-176: the attempt raised e; a wait follows it.
RpFuncRaiseWait(e, halves) ==
    /\ RpFrame
    /\ rpc = "calling"
    /\ WaitsAfter(attempt, max_attempts)
    /\ jitter \/ halves = 2
    /\ last_exception' = e
    /\ r_outcomes' = Append(r_outcomes, [ok |-> FALSE, val |-> e])
    /\ r_delay' = GetDelay(attempt, halves)
    /\ r_sleeps' = r_sleeps + 1
    /\ rpc' = "sleeping"
    /\ UNCHANGED <<max_attempts, jitter, attempt, r_result, r_raised, r_invoked>>

\* lines 168-178: the attempt raised e and no wait follows it.
RpFuncRaiseLast(e) ==
    /\ RpFrame
    /\ rpc = "calling"
    /\ ~WaitsAfter(attempt, max_attempts)
    /\ last_exception' = e
    /\ r_outcomes' = Append(r_outcomes, [ok |-> FALSE, val |-> e])
    /\ RpLoop(attempt, e)
    /\ UNCHANGED <<max_attempts, jitter, r_delay, r_result, r_sleeps>>

\* line 174: asyncio.sleep(delay) is over.
RpWake ==
    /\ RpFrame
    /\ rpc = "sleeping"
    /\ RpLoop(attempt, last_exception)
    /\ UNCHANGED <<max_attempts, jitter, last_exception, r_delay, r_result,
                   r_outcomes, r_sleeps>>

RpNext ==
    \/ RpExecute
    \/ \E v \in Values : RpFuncReturn(v)
    \/ \E e \in Exceptions, halves \in 1..2 : RpFuncRaiseWait(e, halves)
    \/ \E e \in Exceptions : RpFuncRaiseLast(e)
    \/ RpWake

(***************************************************************************)
(* ResilienceManager.resilient_call                                        *)
(*                                                                         *)
(* One resilient_call runs at a time, so its steps are taken one call or   *)
(* one return of the await chain at a time: rc_stack holds the pattern     *)
(* calls (RetryPolicy.execute, CircuitBreaker.call, Bulkhead.execute) that *)
(* await the function they were given. The breaker and the bulkhead it     *)
(* goes through are the ones of the sections above.                        *)
(***************************************************************************)
Patterns == {"retry", "cb", "bh"}

\* The arguments a caller may pass: *args as a tuple, **kwargs as a set of
\* <<key, value>> pairs.
ArgTuples == {<<>>, <<"x">>}
KwDicts == {{}, {<<"k", "y">>}}

\* One "if <pattern>:" block (lines 313-318, 321-326, 329-334) on the locals
\* of resilient_call. The lambda refers to the variables original_func, args
\* and kwargs, not to their values: it reads them when it is called.
ApplyPattern(locals, selected, lam) ==
    IF selected
    THEN [wrapped_func |-> lam, original_func |-> locals.wrapped_func,
          args |-> <<>>, kwargs |-> {}]
    ELSE locals

\* lines 310-334: the locals when line 337 is reached.
WrapAll(sel, a, kw) ==
    LET l0 == [wrapped_func |-> "func", original_func |-> "unbound",
               args |-> a, kwargs |-> kw]
        l1 == ApplyPattern(l0, "retry" \in sel, "lambda_retry")
        l2 == ApplyPattern(l1, "cb" \in sel, "lambda_cb")
    IN  ApplyPattern(l2, "bh" \in sel, "lambda_bh")

\* The manager before any resilient_call.
RcNew ==
    /\ rc_sel = {}
    /\ rc_in = [args |-> <<>>, kwargs |-> {}]
    /\ wrapped_func = "unbound"
    /\ original_func = "unbound"
    /\ args = <<>>
    /\ kwargs = {}
    /\ rc_pc = "idle"
    /\ rc_callee = "None"
    /\ rc_stack = <<>>
    /\ rc_exc = "None"
    /\ rc_value = "None"
    /\ rc_result = "None"
    /\ rc_raised = "None"
    /\ rc_calls = 0
    /\ func_got = <<>>

\* The call a pattern makes to the function it was given: every lambda
\* passes original_func, *args, **kwargs, and the pattern calls that
\* function with those arguments (lines 163, 66, 212).
RcInner == [fn |-> original_func, args |-> args, kwargs |-> kwargs]

\* resilient_call(func, *a, **kw, <sel>) is called: lines 310-337, up to the
\* call wrapped_func().
RcCall(sel, a, kw) ==
    /\ UNCHANGED <<bhVars, cbVars, rpVars, appVars>>
    /\ rc_pc \in {"idle", "returned", "raised"}
    /\ rc_calls < MaxRcCalls
    /\ rc_sel' = sel
    /\ rc_in' = [args |-> a, kwargs |-> kw]
    /\ LET locals == WrapAll(sel, a, kw)
       IN  /\ wrapped_func' = locals.wrapped_func
           /\ original_func' = locals.original_func
           /\ args' = locals.args
           /\ kwargs' = locals.kwargs
           /\ rc_callee' = [fn |-> locals.wrapped_func, args |-> <<>>, kwargs |-> {}]
    /\ rc_pc' = "calling"
    /\ rc_stack' = <<>>
    /\ rc_exc' = "None"
    /\ rc_value' = "None"
    /\ rc_result' = "None"
    /\ rc_raised' = "None"
    /\ rc_calls' = rc_calls + 1
    /\ func_got' = <<>>

\* The call reaches func itself.
RcEnterFunc ==
    /\ UNCHANGED <<bhVars, cbVars, rpVars, appVars>>
    /\ rc_pc = "calling"
    /\ rc_callee.fn = "func"
    /\ func_got' = Append(func_got, [args |-> rc_callee.args,
                                     kwargs |-> rc_callee.kwargs])
    /\ rc_pc' = "in_func"
    /\ UNCHANGED <<rc_sel, rc_in, wrapped_func, original_func, args, kwargs,
                   rc_callee, rc_stack, rc_exc, rc_value, rc_result, rc_raised,
                   rc_calls>>

\* The call reaches a lambda with the interpreter's call stack exhausted.
RcRecursionError ==
    /\ UNCHANGED <<bhVars, cbVars, rpVars, appVars>>
    /\ rc_pc = "calling"
    /\ rc_callee.fn # "func"
    /\ Len(rc_stack) >= RecursionLimit
    /\ rc_exc' = "RecursionError"
    /\ rc_pc' = "unwinding"
    /\ UNCHANGED <<rc_sel, rc_in, wrapped_func, original_func, args, kwargs,
                   rc_callee, rc_stack, rc_value, rc_result, rc_raised,
                   rc_calls, func_got>>

\* The lambda of line 316: RetryPolicy.execute starts its first attempt.
RcEnterRetry ==
    /\ UNCHANGED <<bhVars, cbVars, rpVars, appVars>>
    /\ rc_pc = "calling"
    /\ rc_callee.fn = "lambda_retry"
    /\ Len(rc_stack) < RecursionLimit
    /\ rc_stack' = Append(rc_stack, [pat |-> "retry", attempt |-> 0])
    /\ rc_callee' = RcInner
    /\ UNCHANGED <<rc_sel, rc_in, wrapped_func, original_func, args, kwargs,
                   rc_pc, rc_exc, rc_value, rc_result, rc_raised, rc_calls,
                   func_got>>

\* The lambda of line 324: CircuitBreaker.call, lines 54-66.
RcEnterCircuitBreaker ==
    /\ UNCHANGED <<bhVars, rpVars, appVars>>
    /\ rc_pc = "calling"
    /\ rc_callee.fn = "lambda_cb"
    /\ Len(rc_stack) < RecursionLimit
    /\ LET gate == CallGate(CbSelf, config, now)
       IN  /\ CbStore(gate.self)
           /\ CbHistory(FALSE, FALSE, ~gate.pass)
           /\ cb_calls' = cb_calls + 1
           /\ IF gate.pass
              THEN /\ rc_stack' = Append(rc_stack, [pat |-> "cb", attempt |-> 0])
                   /\ rc_callee' = RcInner
                   /\ cb_invoked' = cb_invoked + 1
                   /\ UNCHANGED <<rc_pc, rc_exc>>
              ELSE /\ rc_exc' = "CircuitOpen"
                   /\ rc_pc' = "unwinding"
                   /\ UNCHANGED <<rc_stack, rc_callee, cb_invoked>>
    /\ UNCHANGED <<config, now, cpc>>
    /\ UNCHANGED <<rc_sel, rc_in, wrapped_func, original_func, args, kwargs,
                   rc_value, rc_result, rc_raised, rc_calls, func_got>>

\* The lambda of line 332: Bulkhead.execute, lines 200-212. The coroutine is
\* the only caller, so a locked semaphore leaves it waiting.
RcEnterBulkhead ==
    /\ UNCHANGED <<cbVars, rpVars, appVars>>
    /\ rc_pc = "calling"
    /\ rc_callee.fn = "lambda_bh"
    /\ Len(rc_stack) < RecursionLimit
    /\ bh_calls' = bh_calls + 1
    /\ IF queued_count >= max_queued
       THEN /\ total_rejected' = total_rejected + 1
            /\ rc_exc' = "QueueFull"
            /\ rc_pc' = "unwinding"
            /\ UNCHANGED <<sem_value, sem_waiters, active_count, queued_count,
                           bh_invoked, rc_stack, rc_callee>>
       ELSE IF SemAcquireFree(sem_value, sem_waiters)
       THEN /\ sem_value' = sem_value - 1
            /\ active_count' = active_count + 1
            /\ queued_count' = (queued_count + 1) - 1
            /\ bh_invoked' = bh_invoked + 1
            /\ rc_stack' = Append(rc_stack, [pat |-> "bh", attempt |-> 0])
            /\ rc_callee' = RcInner
            /\ UNCHANGED <<sem_waiters, total_rejected, rc_exc, rc_pc>>
       ELSE /\ queued_count' = queued_count + 1
            /\ sem_waiters' = Append(sem_waiters, 0)
            /\ rc_pc' = "blocked"
            /\ UNCHANGED <<sem_value, active_count, total_rejected, bh_invoked,
                           rc_stack, rc_callee, rc_exc>>
    /\ UNCHANGED <<max_concurrent, max_queued, sem_done, total_processed, bpc,
                   bh_path>>
    /\ UNCHANGED <<rc_sel, rc_in, wrapped_func, original_func, args, kwargs,
                   rc_value, rc_result, rc_raised, rc_calls, func_got>>

\* func returns v.
RcFuncReturn(v) ==
    /\ UNCHANGED <<bhVars, cbVars, rpVars, appVars>>
    /\ rc_pc = "in_func"
    /\ rc_value' = v
    /\ rc_pc' = "returning"
    /\ UNCHANGED <<rc_sel, rc_in, wrapped_func, original_func, args, kwargs,
                   rc_callee, rc_stack, rc_exc, rc_result, rc_raised, rc_calls,
                   func_got>>

\* func raises the Exception e.
RcFuncRaise(e) ==
    /\ UNCHANGED <<bhVars, cbVars, rpVars, appVars>>
    /\ rc_pc = "in_func"
    /\ rc_exc' = e
    /\ rc_pc' = "unwinding"
    /\ UNCHANGED <<rc_sel, rc_in, wrapped_func, original_func, args, kwargs,
                   rc_callee, rc_stack, rc_value, rc_result, rc_raised, rc_calls,
                   func_got>>

RcTop == rc_stack[Len(rc_stack)]
RcPop == SubSeq(rc_stack, 1, Len(rc_stack) - 1)

\* The value passes through RetryPolicy.execute, line 166.
RcReturnRetry ==
    /\ UNCHANGED <<bhVars, cbVars, rpVars, appVars>>
    /\ rc_pc = "returning"
    /\ Len(rc_stack) > 0
    /\ RcTop.pat = "retry"
    /\ rc_stack' = RcPop
    /\ UNCHANGED <<rc_sel, rc_in, wrapped_func, original_func, args, kwargs,
                   rc_pc, rc_callee, rc_exc, rc_value, rc_result, rc_raised,
                   rc_calls, func_got>>

\* The value passes through CircuitBreaker.call, lines 67-68.
RcReturnCircuitBreaker ==
    /\ UNCHANGED <<bhVars, rpVars, appVars>>
    /\ rc_pc = "returning"
    /\ Len(rc_stack) > 0
    /\ RcTop.pat = "cb"
    /\ CbStore(OnSuccess(CbSelf, config, now))
    /\ CbHistory(TRUE, FALSE, FALSE)
    /\ rc_stack' = RcPop
    /\ UNCHANGED <<config, now, cpc, cb_calls, cb_invoked>>
    /\ UNCHANGED <<rc_sel, rc_in, wrapped_func, original_func, args, kwargs,
                   rc_pc, rc_callee, rc_exc, rc_value, rc_result, rc_raised,
                   rc_calls, func_got>>

\* The value passes through Bulkhead.execute, lines 213-216.
RcReturnBulkhead ==
    /\ UNCHANGED <<cbVars, rpVars, appVars>>
    /\ rc_pc = "returning"
    /\ Len(rc_stack) > 0
    /\ RcTop.pat = "bh"
    /\ total_processed' = total_processed + 1
    /\ active_count' = active_count - 1
    /\ LET rel == SemRelease(sem_value, sem_waiters, sem_done)
       IN  /\ sem_value' = rel.value
           /\ sem_done' = rel.done
    /\ rc_stack' = RcPop
    /\ UNCHANGED <<max_concurrent, max_queued, sem_waiters, queued_count,
                   total_rejected, bpc, bh_path, bh_calls, bh_invoked>>
    /\ UNCHANGED <<rc_sel, rc_in, wrapped_func, original_func, args, kwargs,
                   rc_pc, rc_callee, rc_exc, rc_value, rc_result, rc_raised,
                   rc_calls, func_got>>

\* line 337: resilient_call returns what wrapped_func() returned.
RcReturned ==
    /\ UNCHANGED <<bhVars, cbVars, rpVars, appVars>>
    /\ rc_pc = "returning"
    /\ Len(rc_stack) = 0
    /\ rc_result' = rc_value
    /\ rc_pc' = "returned"
    /\ UNCHANGED <<rc_sel, rc_in, wrapped_func, original_func, args, kwargs,
                   rc_callee, rc_stack, rc_exc, rc_value, rc_raised, rc_calls,
                   func_got>>

\* The exception reaches RetryPolicy.execute, lines 168-178: after the wait
\* the next attempt calls the same function, or the exception is raised.
RcUnwindRetry ==
    /\ UNCHANGED <<bhVars, cbVars, rpVars, appVars>>
    /\ rc_pc = "unwinding"
    /\ Len(rc_stack) > 0
    /\ RcTop.pat = "retry"
    /\ IF WaitsAfter(RcTop.attempt, max_attempts)
       THEN /\ rc_stack' = [rc_stack EXCEPT ![Len(rc_stack)].attempt = @ + 1]
            /\ rc_callee' = RcInner
            /\ rc_pc' = "calling"
       ELSE /\ rc_stack' = RcPop
            /\ UNCHANGED <<rc_callee, rc_pc>>
    /\ UNCHANGED <<rc_sel, rc_in, wrapped_func, original_func, args, kwargs,
                   rc_exc, rc_value, rc_result, rc_raised, rc_calls, func_got>>

\* The exception reaches CircuitBreaker.call, lines 69-71.
RcUnwindCircuitBreaker ==
    /\ UNCHANGED <<bhVars, rpVars, appVars>>
    /\ rc_pc = "unwinding"
    /\ Len(rc_stack) > 0
    /\ RcTop.pat = "cb"
    /\ CbStore(OnFailure(CbSelf, config, now))
    /\ CbHistory(FALSE, TRUE, FALSE)
    /\ rc_stack' = RcPop
    /\ UNCHANGED <<config, now, cpc, cb_calls, cb_invoked>>
    /\ UNCHANGED <<rc_sel, rc_in, wrapped_func, original_func, args, kwargs,
                   rc_pc, rc_callee, rc_exc, rc_value, rc_result, rc_raised,
                   rc_calls, func_got>>

\* The exception reaches Bulkhead.execute, lines 215-219.
RcUnwindBulkhead ==
    /\ UNCHANGED <<cbVars, rpVars, appVars>>
    /\ rc_pc = "unwinding"
    /\ Len(rc_stack) > 0
    /\ RcTop.pat = "bh"
    /\ active_count' = active_count - 1
    /\ LET rel == SemRelease(sem_value, sem_waiters, sem_done)
       IN  /\ sem_value' = rel.value
           /\ sem_done' = rel.done
    /\ queued_count' = queued_count - 1
    /\ rc_stack' = RcPop
    /\ UNCHANGED <<max_concurrent, max_queued, sem_waiters, total_processed,
                   total_rejected, bpc, bh_path, bh_calls, bh_invoked>>
    /\ UNCHANGED <<rc_sel, rc_in, wrapped_func, original_func, args, kwargs,
                   rc_pc, rc_callee, rc_exc, rc_value, rc_result, rc_raised,
                   rc_calls, func_got>>

\* line 337: resilient_call raises what wrapped_func() raised.
RcRaised ==
    /\ UNCHANGED <<bhVars, cbVars, rpVars, appVars>>
    /\ rc_pc = "unwinding"
    /\ Len(rc_stack) = 0
    /\ rc_raised' = rc_exc
    /\ rc_pc' = "raised"
    /\ UNCHANGED <<rc_sel, rc_in, wrapped_func, original_func, args, kwargs,
                   rc_callee, rc_stack, rc_exc, rc_value, rc_result, rc_calls,
                   func_got>>

RcNext ==
    \/ \E sel \in SUBSET Patterns, a \in ArgTuples, kw \in KwDicts :
          RcCall(sel, a, kw)
    \/ RcEnterFunc
    \/ RcRecursionError
    \/ RcEnterRetry
    \/ RcEnterCircuitBreaker
    \/ RcEnterBulkhead
    \/ \E v \in Values : RcFuncReturn(v)
    \/ \E e \in Exceptions : RcFuncRaise(e)
    \/ RcReturnRetry
    \/ RcReturnCircuitBreaker
    \/ RcReturnBulkhead
    \/ RcReturned
    \/ RcUnwindRetry
    \/ RcUnwindCircuitBreaker
    \/ RcUnwindBulkhead
    \/ RcRaised

(***************************************************************************)
(* MetricsMonitor (metrics_monitor.py)                                     *)
(***************************************************************************)
MetricNames == {"m1", "m2"}
MetricValues == 1..MaxValue

\* A dict with one key set.
DictPut(d, k, v) == [x \in DOMAIN d \cup {k} |-> IF x = k THEN v ELSE d[x]]

\* The dataclass Metric; the timestamp is the clock's reading.
Metric(name, value, at) == [name |-> name, value |-> value, timestamp |-> at]

\* A variant of the bounded append that evicts one point too late.
DequeAppendLateM(d, x, maxlen) ==
    IF Len(d) > maxlen THEN Append(Tail(d), x) ELSE Append(d, x)

\* deque.append on a deque(maxlen=maxlen): a full deque drops its leftmost
\* item.
DequeAppend(d, x, maxlen) ==
    IF Len(d) >= maxlen THEN Append(Tail(d), x) ELSE Append(d, x)

\* self.metrics[name] of the defaultdict, read without creating the key.
MetricsOf(name) == IF name \in DOMAIN metrics THEN metrics[name] ELSE <<>>

\* values.sort(); values[idx] for the values of a series (idx from 0).
SortedAt(series, idx) ==
    CHOOSE v \in {series[i].value : i \in DOMAIN series} :
        /\ Cardinality({i \in DOMAIN series : series[i].value < v}) <= idx
        /\ idx < Cardinality({i \in DOMAIN series : series[i].value <= v})

\* The PerformanceBaseline establish_baseline builds, lines 97-111:
\* int(len * 0.5), int(len * 0.75) and int(len * percentile).
PerformanceBaseline(name, series) ==
    [metric_name |-> name,
     baseline_value |-> SortedAt(series, Len(series) \div 2),
     threshold_warning |-> SortedAt(series, (Len(series) * 3) \div 4),
     threshold_critical |->
         SortedAt(series, (Len(series) * DefaultPercentile) \div 100),
     sample_size |-> Len(series)]

\* An entry of the alerts list.
Alert(severity, name, value, threshold, at) ==
    [severity |-> severity, metric |-> name, value |-> value,
     threshold |-> threshold, timestamp |-> at]

\* A variant of _check_baseline whose second test is "if", not "elif".
CheckBaselineBothM(al, baseline, name, value, at) ==
    LET crit == IF value >= baseline.threshold_critical
                THEN Append(al, Alert("critical", name, value,
                                      baseline.threshold_critical, at))
                ELSE al
    IN  IF value >= baseline.threshold_warning
        THEN Append(crit, Alert("warning", name, value,
                                baseline.threshold_warning, at))
        ELSE crit

\* _check_baseline, lines 67-89: the alerts list after the check.
CheckBaseline(al, baseline, name, value, at) ==
    IF value >= baseline.threshold_critical
    THEN Append(al, Alert("critical", name, value,
                          baseline.threshold_critical, at))
    ELSE IF value >= baseline.threshold_warning
    THEN Append(al, Alert("warning", name, value,
                          baseline.threshold_warning, at))
    ELSE al

\* The value of the i-th point (from 0) of a monitor's earlier recording:
\* seven points in ten are 1, two are 2, one is 3.
EarlierValue(i) == IF i % 10 < 7 THEN 1 ELSE IF i % 10 < 9 THEN 2 ELSE 3

\* A monitor built with retention rh on which record_metric("m1", ...) has
\* run n times (n <= maxlen) and nothing else: lines 42-47, then 51-65.
MmRecorded(rh, n) ==
    /\ metrics = [x \in (IF n = 0 THEN {} ELSE {"m1"}) |->
                      [i \in 1..n |-> Metric("m1", EarlierValue(i - 1), i - 1)]]
    /\ baselines = [x \in {} |-> 0]
    /\ alerts = <<>>
    /\ retention_hours = rh
    /\ mm_now = n
    /\ mm_records = 0
    /\ mm_last = [name |-> "None", value |-> 0]

MmNew(rh) == MmRecorded(rh, 0)

MmParked == MmNew(DefaultRetentionHours)

\* record_metric(name, value), lines 51-65.
RecordMetric(name, value) ==
    /\ MmFrame
    /\ mm_records < MaxRecords
    /\ metrics' = DictPut(metrics, name,
                          DequeAppend(MetricsOf(name),
                                      Metric(name, value, mm_now),
                                      SeriesMaxLen))
    /\ alerts' = IF name \in DOMAIN baselines
                 THEN CheckBaseline(alerts, baselines[name], name, value, mm_now)
                 ELSE alerts
    /\ mm_now' = mm_now + 1
    /\ mm_records' = mm_records + 1
    /\ mm_last' = [name |-> name, value |-> value]
    /\ UNCHANGED <<baselines, retention_hours>>

\* establish_baseline(name), lines 91-115, past the early return.
EstablishBaseline(name) ==
    /\ MmFrame
    /\ ~(name \notin DOMAIN metrics \/ Len(metrics[name]) < MinBaselineSamples)
    /\ baselines' = DictPut(baselines, name,
                            PerformanceBaseline(name, metrics[name]))
    /\ UNCHANGED <<metrics, alerts, retention_hours, mm_now, mm_records,
                   mm_last>>

\* cleanup_old_metrics(), lines 266-276: every series keeps the points not
\* older than the retention period.
CleanupOldMetrics ==
    /\ MmFrame
    /\ LET cutoff_time == mm_now - retention_hours
       IN  metrics' = [n \in DOMAIN metrics |->
                          SelectSeq(metrics[n],
                                    LAMBDA m : m.timestamp >= cutoff_time)]
    /\ UNCHANGED <<baselines, alerts, retention_hours, mm_now, mm_records,
                   mm_last>>

MmNext ==
    \/ \E name \in MetricNames, value \in MetricValues : RecordMetric(name, value)
    \/ \E name \in MetricNames : EstablishBaseline(name)
    \/ CleanupOldMetrics

(***************************************************************************)
(* SelfLearner (self_learning.py)                                          *)
(***************************************************************************)
Strategies == {"s1", "s2"}
Outcomes == {"success", "failure"}

\* Task descriptions, as their lower-case words.
Descriptions == {<<"find", "code">>, <<"run", "program">>, <<"hello">>}

\* Exact fractions for the floats the learner computes: <<numerator,
\* denominator>> in lowest terms.
RECURSIVE Gcd(_, _)
Gcd(a, b) == IF b = 0 THEN a ELSE Gcd(b, a % b)

Frac(n, d) == LET g == Gcd(n, d) IN <<n \div g, d \div g>>

FracGT(a, b) == a[1] * b[2] > b[1] * a[2]

FracMin(a, b) == IF FracGT(a, b) THEN b ELSE a

FracMul(a, b) == Frac(a[1] * b[1], a[2] * b[2])

FracAdd(a, b) == Frac(a[1] * b[2] + b[1] * a[2], a[2] * b[2])

\* _classify_task, lines 230-243: the first keyword list with a word in
\* the description decides.
ClassifyTask(desc) ==
    LET words == {desc[i] : i \in DOMAIN desc}
        has(keys) == words \cap keys # {}
    IN  IF has({"search", "find", "look up", "research"}) THEN "search_task"
        ELSE IF has({"code", "execute", "run", "program"}) THEN "code_task"
        ELSE IF has({"click", "type", "screenshot", "control"})
        THEN "control_task"
        ELSE IF has({"analyze", "summarize", "explain"}) THEN "analysis_task"
        ELSE "general_task"

\* The dataclass Experience, with one action taken and empty metrics and
\* context.
Experience(desc, strategy, outcome, at) ==
    [timestamp |-> at, task_description |-> desc, strategy_used |-> strategy,
     actions_taken |-> <<[action |-> "a1"]>>, outcome |-> outcome,
     performance_metrics |-> {}, context |-> {}]

\* The dataclass Knowledge.
Knowledge(topic, content, confidence, source, at, usage_count, success_rate) ==
    [topic |-> topic, content |-> content, confidence |-> confidence,
     source |-> source, timestamp |-> at, usage_count |-> usage_count,
     success_rate |-> success_rate]

\* The entry the defaultdict of lines 47-52 makes for a new strategy.
PerfDefault(strategy) ==
    [strategy |-> strategy, attempts |-> 0, successes |-> 0,
     avg_duration |-> Frac(0, 1), success_rate |-> Frac(0, 1)]

\* self.strategy_performance[strategy]: the entries with the strategy's
\* entry present, and its position.
PerfWith(sp, strategy) ==
    IF \E i \in DOMAIN sp : sp[i].strategy = strategy
    THEN sp
    ELSE Append(sp, PerfDefault(strategy))

PerfIndex(sp, strategy) == CHOOSE i \in DOMAIN sp : sp[i].strategy = strategy

\* A variant that works the success rate out before it counts the call.
PerfUpdateStaleRateM(entry, outcome) ==
    LET attempts == entry.attempts + 1
        successes == entry.successes + (IF outcome = "success" THEN 1 ELSE 0)
    IN  [entry EXCEPT !.attempts = attempts, !.successes = successes,
                      !.success_rate = Frac(entry.successes, attempts)]

\* lines 94-103: the strategy's counters after one more experience.
PerfUpdate(entry, outcome) ==
    LET attempts == entry.attempts + 1
        successes == entry.successes + (IF outcome = "success" THEN 1 ELSE 0)
    IN  [entry EXCEPT !.attempts = attempts, !.successes = successes,
                      !.success_rate = Frac(successes, attempts)]

\* _extract_success_patterns, lines 126-152.
ExtractSuccessPatterns(kb, e) ==
    LET knowledge_key == "success_pattern_" \o e.strategy_used
        success_factors ==
            [strategy |-> e.strategy_used,
             actions |-> [i \in DOMAIN e.actions_taken |->
                              e.actions_taken[i].action],
             context_features |-> <<>>]
    IN  IF knowledge_key \notin DOMAIN kb
        THEN DictPut(kb, knowledge_key,
                     Knowledge(knowledge_key, success_factors, Frac(7, 10),
                               "experience", e.timestamp, 0, Frac(0, 1)))
        ELSE DictPut(kb, knowledge_key,
                     [kb[knowledge_key] EXCEPT
                        !.usage_count = @ + 1,
                        !.confidence = FracMin(Frac(99, 100),
                                               FracMul(@, Frac(11, 10))),
                        !.timestamp = e.timestamp])

\* _extract_failure_lessons, lines 154-174.
ExtractFailureLessons(kb, e) ==
    LET knowledge_key == "failure_lesson_" \o e.strategy_used
        failure_lesson ==
            [strategy |-> e.strategy_used, failed_actions |-> e.actions_taken,
             context |-> e.context,
             lesson |-> "Avoid this strategy in similar contexts"]
    IN  IF knowledge_key \notin DOMAIN kb
        THEN DictPut(kb, knowledge_key,
                     Knowledge(knowledge_key, failure_lesson, Frac(8, 10),
                               "failure_experience", e.timestamp, 0,
                               Frac(0, 1)))
        ELSE kb

\* _update_knowledge, lines 190-224.
UpdateKnowledge(kb, e) ==
    LET task_type == ClassifyTask(e.task_description)
        knowledge_key == "task_solution_" \o task_type
        solution_data ==
            [task_type |-> task_type,
             successful_strategy |->
                 IF e.outcome = "success" THEN e.strategy_used ELSE "None",
             actions |-> e.actions_taken,
             performance |-> e.performance_metrics]
        gain == IF e.outcome = "success" THEN Frac(1, 1) ELSE Frac(0, 1)
    IN  IF knowledge_key \in DOMAIN kb
        THEN LET existing == kb[knowledge_key]
                 usage_count == existing.usage_count + 1
             IN  DictPut(kb, knowledge_key,
                         [existing EXCEPT
                            !.usage_count = usage_count,
                            !.success_rate =
                                FracMul(FracAdd(FracMul(@, Frac(usage_count - 1, 1)),
                                                gain),
                                        Frac(1, usage_count)),
                            !.confidence = FracMin(Frac(99, 100),
                                                   FracAdd(@, Frac(5, 100)))])
        ELSE DictPut(kb, knowledge_key,
                     Knowledge(knowledge_key, solution_data, Frac(5, 10),
                               "experience", e.timestamp, 1, gain))

\* sorted(items, key=success_rate, reverse=True): the strategies by falling
\* success rate, equal rates in the dict's order.
RECURSIVE SortedByRate(_)
SortedByRate(sp) ==
    IF sp = <<>>
    THEN <<>>
    ELSE LET rest == SortedByRate(Tail(sp))
             above == Cardinality({i \in DOMAIN rest :
                          FracGT(rest[i].success_rate, Head(sp).success_rate)})
         IN  SubSeq(rest, 1, above) \o <<Head(sp)>>
                \o SubSeq(rest, above + 1, Len(rest))

\* _optimize_strategies, lines 245-263. Each item of best_strategies holds
\* the strategy's own counters dict, not a copy: it is kept here as the
\* strategy's name and read through strategy_performance.
OptimizeStrategies(kb, sp, at) ==
    LET sorted == SortedByRate(sp)
        best_strategies ==
            [i \in 1..Min(BestStrategiesKept, Len(sorted)) |-> sorted[i].strategy]
    IN  DictPut(kb, "optimized_strategies",
                Knowledge("optimized_strategies",
                          [best_strategies |-> best_strategies], Frac(9, 10),
                          "optimization", at, 0, Frac(0, 1)))

\* _learn_from_experience, lines 105-124 (the save of lines 122-124 writes
\* the disk only).
LearnFromExperience(kb, sp, e) ==
    LET extracted == IF e.outcome = "success"
                     THEN ExtractSuccessPatterns(kb, e)
                     ELSE ExtractFailureLessons(kb, e)
    IN  OptimizeStrategies(UpdateKnowledge(extracted, e), sp, e.timestamp)

\* suggest_strategy, lines 265-297: what it returns.
SuggestedStrategy(kb, sp, desc) ==
    LET task_type == ClassifyTask(desc)
        knowledge_key == "task_solution_" \o task_type
        learned == /\ knowledge_key \in DOMAIN kb
                   /\ FracGT(kb[knowledge_key].success_rate, Frac(6, 10))
        best == IF "optimized_strategies" \in DOMAIN kb
                THEN kb["optimized_strategies"].content.best_strategies
                ELSE <<>>
    IN  IF learned
        THEN [strategy |-> kb[knowledge_key].content.successful_strategy,
              confidence |-> kb[knowledge_key].confidence,
              based_on_experiences |-> kb[knowledge_key].usage_count]
        ELSE IF Len(best) > 0
        THEN LET entry == sp[PerfIndex(sp, best[1])]
             IN  [strategy |-> best[1],
                  confidence |-> entry.success_rate,
                  based_on_experiences |-> entry.attempts]
        ELSE [strategy |-> "default_exploration", confidence |-> Frac(3, 10),
              based_on_experiences |-> 0]

\* SelfLearner.__init__ with no knowledge base file on disk.
SlNew ==
    /\ experiences = <<>>
    /\ knowledge_base = [k \in {} |-> 0]
    /\ strategy_performance = <<>>
    /\ sl_asked = <<>>
    /\ sl_suggested = [strategy |-> "None", confidence |-> Frac(0, 1),
                       based_on_experiences |-> 0]
    /\ sl_asks = 0

\* record_experience(experience), lines 90-103 and the learning it awaits.
RecordExperience(desc, strategy, outcome) ==
    /\ SlFrame
    /\ Len(experiences) < MaxExperiences
    /\ LET e == Experience(desc, strategy, outcome, Len(experiences))
           with == PerfWith(strategy_performance, strategy)
           i == PerfIndex(with, strategy)
           sp == [with EXCEPT ![i] = PerfUpdate(@, outcome)]
       IN  /\ experiences' = Append(experiences, e)
           /\ strategy_performance' = sp
           /\ knowledge_base' = LearnFromExperience(knowledge_base, sp, e)
    /\ UNCHANGED <<sl_asked, sl_suggested, sl_asks>>

\* suggest_strategy(desc, context), lines 265-297.
SuggestStrategy(desc) ==
    /\ SlFrame
    /\ sl_asks < MaxAsks
    /\ sl_asked' = desc
    /\ sl_suggested' = SuggestedStrategy(knowledge_base, strategy_performance,
                                         desc)
    /\ sl_asks' = sl_asks + 1
    /\ UNCHANGED <<experiences, knowledge_base, strategy_performance>>

SlNext ==
    \/ \E desc \in Descriptions, strategy \in Strategies, outcome \in Outcomes :
           RecordExperience(desc, strategy, outcome)
    \/ \E desc \in Descriptions : SuggestStrategy(desc)

(***************************************************************************)
(* AutonomousAgent (agent.py). The LLM client and the code executor are    *)
(* not among the sources: a call of theirs is a call that returns a value  *)
(* or raises an Exception.                                                 *)
(***************************************************************************)
\* The action types _execute_step dispatches, and the parameter each reads
\* without a default.
KnownActions == {"search_web", "execute_code", "control_computer", "llm_query"}

RequiredParameter(action) ==
    CASE action = "search_web" -> "query"
      [] action = "execute_code" -> "code"
      [] action = "control_computer" -> "action_type"
      [] action = "llm_query" -> "prompt"

\* The steps a plan is made of: a step that reaches its capability, a step
\* without its parameter, a step of an unknown action type. parameters is
\* the set of keys of the step's parameters dict.
StepChoices ==
    {[action |-> "search_web", parameters |-> {"query"}],
     [action |-> "llm_query", parameters |-> {}],
     [action |-> "fly", parameters |-> {}]}

\* What llm.create_plan returns: a dict with 'steps', or one without.
PlanAnswers ==
    {[steps |-> q] : q \in UNION {[1..n -> StepChoices] : n \in 0..MaxPlanLen}}
        \cup {[note |-> "no plan"]}

\* What llm.determine_next_action returns.
NextActions ==
    {[action |-> "goal_achieved", result |-> "r"],
     [action |-> "continue", description |-> "d1"]}

AgExceptions == {"e1"}

\* What the capability of a step returns.
StepResult(step) == "result of " \o step.action

\* Task.result = None, written as a sequence so that it compares with the
\* list of results.
NoResult == <<"None">>

\* The dataclass Task, lines 22-30.
Task(id, description) ==
    [id |-> id, description |-> description, priority |-> 1,
     status |-> "pending", result |-> NoResult, error |-> "None"]

\* A variant of _execute_step without the final else: an unknown action
\* type raises nothing.
StepErrorNoElseM(step) ==
    IF step.action \in KnownActions
          /\ RequiredParameter(step.action) \notin step.parameters
    THEN "'" \o RequiredParameter(step.action) \o "'"
    ELSE "None"

\* _execute_step up to its await, lines 105-121: str() of the exception it
\* raises there (KeyError of a missing parameter, ValueError of an unknown
\* action type), or "None" when it awaits the capability.
StepError(step) ==
    IF step.action \notin KnownActions
    THEN "Unknown action type: " \o step.action
    ELSE IF RequiredParameter(step.action) \notin step.parameters
    THEN "'" \o RequiredParameter(step.action) \o "'"
    ELSE "None"

\* A variant of the loop test of line 159 that admits one more iteration.
RaLoopInclusiveM(i, max) == i <= max

\* run_autonomous, line 159: while iteration < max_iterations.
RaLoop(i, max) == i < max

\* The agent after __init__, lines 38-53, with no call in progress.
AgNew ==
    /\ memory = <<>>
    /\ task = Task("None", "None")
    /\ plan = <<>>
    /\ results = <<>>
    /\ ag_pc = "idle"
    /\ iteration = 0
    /\ max_iterations = DefaultMaxIterations
    /\ ra_pc = "off"
    /\ ra_result = [success |-> FALSE, reason |-> "None", iterations |-> 0]
    /\ ag_ran = <<>>
    /\ ag_exc = "None"
    /\ ag_calls = 0
    /\ ra_started = 0

\* run_autonomous from the loop test of line 159 with iteration = i: it
\* awaits the LLM's next action, or returns lines 180-185.
RaLoopTest(i, max) ==
    /\ iteration' = i
    /\ IF RaLoop(i, max)
       THEN /\ ra_pc' = "asking"
            /\ ra_result' = ra_result
       ELSE /\ ra_pc' = "returned"
            /\ ra_result' = [success |-> FALSE,
                             reason |-> "max_iterations_reached",
                             iterations |-> i]

\* process_task returns t, line 93; inside run_autonomous lines 178 and 159
\* follow.
AgReturn(t) ==
    /\ task' = t
    /\ ag_pc' = "done"
    /\ IF ra_pc = "processing"
       THEN RaLoopTest(iteration + 1, max_iterations)
       ELSE UNCHANGED <<iteration, ra_pc, ra_result>>

\* lines 88-91: the handler of process_task.
AgFail(text) ==
    /\ ag_exc' = text
    /\ AgReturn([task EXCEPT !.error = text, !.status = "failed"])

\* The loop of lines 73-85 reaching step i of p with the results res: it
\* ends (lines 84-85), fails in _execute_step, or awaits the step's
\* capability.
AgStep(p, i, res) ==
    /\ results' = res
    /\ IF i > Len(p)
       THEN /\ AgReturn([task EXCEPT !.result = res, !.status = "completed"])
            /\ UNCHANGED <<ag_ran, ag_exc>>
       ELSE /\ ag_ran' = Append(ag_ran, i)
            /\ IF StepError(p[i]) # "None"
               THEN AgFail(StepError(p[i]))
               ELSE /\ ag_pc' = "stepping"
                    /\ UNCHANGED <<task, iteration, ra_pc, ra_result, ag_exc>>

\* process_task(t) up to the await of line 69.
AgEnter(t) ==
    /\ task' = t
    /\ plan' = <<>>
    /\ results' = <<>>
    /\ ag_ran' = <<>>
    /\ ag_exc' = "None"
    /\ ag_pc' = "planning"

\* A caller outside run_autonomous calls process_task(Task("t1", "d1")).
ProcessTask ==
    /\ AgFrame
    /\ ag_pc \in {"idle", "done"}
    /\ ra_pc \in {"off", "returned"}
    /\ ag_calls < MaxTasks
    /\ AgEnter(Task("t1", "d1"))
    /\ ag_calls' = ag_calls + 1
    /\ UNCHANGED <<memory, iteration, max_iterations, ra_pc, ra_result,
                   ra_started>>

\* llm.create_plan returns: lines 69-73, then the loop.
CreatePlanReturn(answer) ==
    /\ AgFrame
    /\ ag_pc = "planning"
    /\ IF "steps" \in DOMAIN answer
       THEN /\ plan' = answer.steps
            /\ AgStep(answer.steps, 1, <<>>)
       ELSE /\ AgFail("'steps'")
            /\ UNCHANGED <<plan, results, ag_ran>>
    /\ UNCHANGED <<memory, max_iterations, ag_calls, ra_started>>

\* llm.create_plan raises e.
CreatePlanRaise(e) ==
    /\ AgFrame
    /\ ag_pc = "planning"
    /\ AgFail(e)
    /\ UNCHANGED <<memory, plan, results, max_iterations, ag_ran, ag_calls,
                   ra_started>>

\* The capability of the awaited step returns: lines 74-82, then the loop.
StepReturn ==
    /\ AgFrame
    /\ ag_pc = "stepping"
    /\ LET i == ag_ran[Len(ag_ran)]
           step_result == StepResult(plan[i])
       IN  /\ memory' = Append(memory, [task_id |-> task.id, step |-> plan[i],
                                        result |-> step_result])
           /\ AgStep(plan, i + 1, Append(results, step_result))
    /\ UNCHANGED <<plan, max_iterations, ag_calls, ra_started>>

\* The capability of the awaited step raises e.
StepRaise(e) ==
    /\ AgFrame
    /\ ag_pc = "stepping"
    /\ AgFail(e)
    /\ UNCHANGED <<memory, plan, results, max_iterations, ag_ran, ag_calls,
                   ra_started>>

\* run_autonomous(goal, max), lines 156-161, on an agent that has not run
\* autonomously before.
RunAutonomous(max) ==
    /\ AgFrame
    /\ ag_pc \in {"idle", "done"}
    /\ ra_pc = "off"
    /\ max_iterations' = max
    /\ RaLoopTest(0, max)
    /\ ra_started' = 0
    /\ UNCHANGED <<memory, task, plan, results, ag_pc, ag_ran, ag_exc, ag_calls>>

\* llm.determine_next_action returns: lines 163-177.
NextActionReturn(next_action) ==
    /\ AgFrame
    /\ ra_pc = "asking"
    /\ IF next_action.action = "goal_achieved"
       THEN /\ ra_pc' = "returned"
            /\ ra_result' = [success |-> TRUE, iterations |-> iteration,
                             result |-> next_action.result]
            /\ UNCHANGED <<task, plan, results, ag_pc, ag_ran, ag_exc,
                           ra_started>>
       ELSE /\ AgEnter(Task("auto_task_" \o ToString(iteration),
                            next_action.description))
            /\ ra_pc' = "processing"
            /\ ra_started' = ra_started + 1
            /\ UNCHANGED ra_result
    /\ UNCHANGED <<memory, iteration, max_iterations, ag_calls>>

\* The calls the agent awaits end.
AgAwaited ==
    \/ \E answer \in PlanAnswers : CreatePlanReturn(answer)
    \/ \E e \in AgExceptions : CreatePlanRaise(e)
    \/ StepReturn
    \/ \E e \in AgExceptions : StepRaise(e)
    \/ \E next_action \in NextActions : NextActionReturn(next_action)

AgNext ==
    \/ ProcessTask
    \/ \E max \in 0..MaxIterations : RunAutonomous(max)
    \/ AgAwaited

(***************************************************************************)
(* RefactoringLoop.auto_refactor (src/refactoring_loop.py)                 *)
(*                                                                         *)
(* A source text is told by what the code reads of it: whether ast.parse   *)
(* accepts it and how many ast.FunctionDef nodes ast.walk finds in it      *)
(* ("async def" is an AsyncFunctionDef and is not counted); id tells texts *)
(* of different origin apart.                                              *)
(***************************************************************************)
\* What the file may hold before the first call.
SourceTexts ==
    {[id |-> "original", parses |-> TRUE, funcs |-> n] : n \in 0..MaxFuncs}
    \cup {[id |-> "original", parses |-> FALSE, funcs |-> 0]}

\* No file at filepath; also the value of a local not yet assigned.
NoFile == [id |-> "no file", parses |-> FALSE, funcs |-> 0]

\* What open(filepath, 'w') leaves when the write that follows it raises:
\* the empty file, or the part of the text written before the error.
TornTexts ==
    {[id |-> "empty", parses |-> TRUE, funcs |-> 0],
     [id |-> "partial", parses |-> FALSE, funcs |-> 0]}

\* What llm.query may return for the refactoring prompt.
LlmOutputs ==
    {[id |-> "refactored", parses |-> TRUE, funcs |-> n] : n \in 0..MaxFuncs}
    \cup {[id |-> "refactored", parses |-> FALSE, funcs |-> 0]}

\* _validate_refactoring, lines 245-264. Both ast.parse calls raise into the
\* handler of line 262; r < o * 0.8 is 5 * r < 4 * o on integers.
ValidateRefactoring(original, refactored_code) ==
    IF ~refactored_code.parses \/ ~original.parses
    THEN FALSE
    ELSE ~(5 * refactored_code.funcs < 4 * original.funcs)

\* RefactoringLoop.__init__, and the file it will be asked to refactor.
RfNew(text) ==
    /\ rf_file = text
    /\ rf_backups = <<>>
    /\ refactoring_history = <<>>
    /\ rf_pc = "idle"
    /\ original_code = NoFile
    /\ refactored = NoFile
    /\ rf_results = <<>>

\* auto_refactor(filepath, backup), lines 186-199, up to the await of
\* llm.query. raised tells which statement raised, if any: the read of a
\* missing file always does, the read or the backup write of a file that is
\* there may (an OSError). All of them end in the handler of line 221.
AutoRefactor(backup, raised) ==
    /\ RfFrame
    /\ rf_pc = "idle"
    /\ Len(rf_results) < MaxRefactors
    /\ rf_file = NoFile => raised = "read"
    /\ raised = "backup" => backup
    /\ refactored' = NoFile
    /\ IF raised = "read"
       THEN /\ rf_results' = Append(rf_results, FALSE)
            /\ original_code' = NoFile
            /\ UNCHANGED <<rf_backups, rf_pc>>
       ELSE /\ original_code' = rf_file
            /\ IF raised = "backup"
               THEN /\ rf_results' = Append(rf_results, FALSE)
                    /\ \E torn \in TornTexts :
                          rf_backups' \in {rf_backups, Append(rf_backups, torn)}
                    /\ UNCHANGED rf_pc
               ELSE /\ rf_backups' = IF backup
                                     THEN Append(rf_backups, rf_file)
                                     ELSE rf_backups
                    /\ rf_pc' = "refactoring"
                    /\ UNCHANGED rf_results
    /\ UNCHANGED <<rf_file, refactoring_history>>

\* llm.query returns output: lines 199-219. When the output is validated,
\* written tells how the write of lines 204-205 went: "yes", or open()
\* raised, or f.write() raised after open() had truncated the file.
RefactorCodeReturn(output, written) ==
    /\ RfFrame
    /\ rf_pc = "refactoring"
    /\ refactored' = output
    /\ rf_pc' = "idle"
    /\ IF ValidateRefactoring(original_code, output)
       THEN CASE written = "yes" ->
                   /\ rf_file' = output
                   /\ refactoring_history' =
                        Append(refactoring_history,
                               [filepath |-> "filepath", success |-> TRUE])
                   /\ rf_results' = Append(rf_results, TRUE)
              [] written = "open raised" ->
                   /\ rf_results' = Append(rf_results, FALSE)
                   /\ UNCHANGED <<rf_file, refactoring_history>>
              [] written = "write raised" ->
                   /\ rf_file' \in TornTexts
                   /\ rf_results' = Append(rf_results, FALSE)
                   /\ UNCHANGED refactoring_history
       ELSE /\ written = "yes"
            /\ rf_results' = Append(rf_results, FALSE)
            /\ UNCHANGED <<rf_file, refactoring_history>>
    /\ UNCHANGED <<rf_backups, original_code>>

\* llm.query raises: the handler of lines 221-223.
RefactorCodeRaise ==
    /\ RfFrame
    /\ rf_pc = "refactoring"
    /\ rf_pc' = "idle"
    /\ rf_results' = Append(rf_results, FALSE)
    /\ UNCHANGED <<rf_file, rf_backups, refactoring_history, original_code,
                   refactored>>

RfNext ==
    \/ \E backup \in BOOLEAN, raised \in {"no", "read", "backup"} :
          AutoRefactor(backup, raised)
    \/ \E output \in LlmOutputs,
          written \in {"yes", "open raised", "write raised"} :
          RefactorCodeReturn(output, written)
    \/ RefactorCodeRaise

(***************************************************************************)
(* Specifications: one component under study, built with any small         *)
(* configuration; the others as their constructors' defaults leave them.   *)
(***************************************************************************)
\* The agent's other modules as their constructors leave them.
AppParked == MmParked /\ SlNew /\ AgNew /\ RfNew(NoFile)

\* The resilience patterns as the manager's getters make them.
ResParked == BhParked /\ CbParked /\ RpParked /\ RcNew

BhInit ==
    /\ \E mc \in 1..MaxConcurrent, mq \in 0..MaxQueued : BhNew(mc, mq)
    /\ CbParked
    /\ RpParked
    /\ RcNew
    /\ AppParked

CbInit ==
    /\ \E ft \in 1..MaxFailureThreshold, st \in 1..MaxSuccessThreshold,
          ts \in 0..MaxTimeout, ws \in 1..MaxWindow :
           CbNew(CircuitBreakerConfig(ft, st, ts, ws))
    /\ BhParked
    /\ RpParked
    /\ RcNew
    /\ AppParked

RpInit ==
    /\ \E ma \in 0..MaxAttempts, jit \in BOOLEAN : RpNew(ma, jit)
    /\ BhParked
    /\ CbParked
    /\ RcNew
    /\ AppParked

\* A manager whose patterns are made by get_circuit_breaker, get_bulkhead
\* and get_retry_policy with their defaults.
RcInit ==
    /\ RcNew
    /\ BhParked
    /\ CbParked
    /\ RpParked
    /\ AppParked

RfInit ==
    /\ \E text \in SourceTexts \cup {NoFile} : RfNew(text)
    /\ ResParked
    /\ MmParked
    /\ SlNew
    /\ AgNew

\* A monitor that has recorded no point, or just enough for a baseline.
MmInit ==
    /\ \E rh \in 1..MaxRetention, n \in {0, MinBaselineSamples} :
          MmRecorded(rh, n)
    /\ ResParked
    /\ SlNew
    /\ AgNew
    /\ RfNew(NoFile)

SlInit ==
    /\ SlNew
    /\ ResParked
    /\ MmParked
    /\ AgNew
    /\ RfNew(NoFile)

AgInit ==
    /\ AgNew
    /\ ResParked
    /\ MmParked
    /\ SlNew
    /\ RfNew(NoFile)

SpecBH == BhInit /\ [][BhNext]_vars

\* The Bulkhead under the scheduling the code runs with: the event loop runs
\* every task whose future is done (a woken waiter resumes), and every
\* wrapped function that was invoked ends, by returning or raising.
BhFairness ==
    \A c \in Callers :
        /\ WF_vars(BhResume(c))
        /\ WF_vars(BhFuncReturn(c) \/ BhFuncRaise(c))

SpecBHFair == BhInit /\ [][BhNext]_vars /\ BhFairness

SpecCB == CbInit /\ [][CbNext]_vars

SpecRP == RpInit /\ [][RpNext]_vars

SpecRC == RcInit /\ [][RcNext]_vars

SpecMM == MmInit /\ [][MmNext]_vars

SpecSL == SlInit /\ [][SlNext]_vars

SpecAG == AgInit /\ [][AgNext]_vars

SpecRF == RfInit /\ [][RfNext]_vars

\* The agent when every call it awaits (the LLM, a step's capability) ends.
SpecAGFair == AgInit /\ [][AgNext]_vars /\ WF_vars(AgAwaited)

(***************************************************************************)
(* Properties of the Bulkhead                                              *)
(***************************************************************************)
\* The callers whose wrapped function is in flight.
BhInFlight == {c \in Callers : bpc[c] = "running"}

\* C1: in every reachable state the number of wrapped functions in flight
\* inside the Bulkhead, and its active_count, is at most max_concurrent,
\* whatever the interleaving and whether or not functions raise.
C1_ConcurrencyLimit ==
    /\ Cardinality(BhInFlight) <= max_concurrent
    /\ active_count <= max_concurrent

\* The limit is reached while a caller waits and after a function raised.
C1_Witness ==
    /\ Cardinality(BhInFlight) = max_concurrent
    /\ active_count = max_concurrent
    /\ \E c \in Callers : bpc[c] = "waiting"
    /\ \E c \in Callers : bpc[c] = "raised"

\* C9: an execute() call made while queued_count >= max_queued raises the
\* 'queue is full' exception, adds exactly one to total_rejected, does not
\* invoke the wrapped function and leaves active_count, queued_count and
\* total_processed as they were.
C9_QueueFullRejects ==
    [][(bh_calls' = bh_calls + 1 /\ queued_count >= max_queued) =>
        /\ \E c \in Callers :
              bpc[c] \in BhRest /\ bpc' = [bpc EXCEPT ![c] = "rejected"]
        /\ total_rejected' = total_rejected + 1
        /\ bh_invoked' = bh_invoked
        /\ UNCHANGED <<active_count, queued_count, total_processed>>]_vars

\* A call was rejected by a queue that holds a waiting caller.
C9_Witness ==
    /\ max_queued > 0
    /\ queued_count >= max_queued
    /\ total_rejected > 0
    /\ \E c \in Callers : bpc[c] = "rejected"
    /\ \E c \in Callers : bpc[c] = "waiting"

(***************************************************************************)
(* Properties of the CircuitBreaker                                        *)
(***************************************************************************)
\* The failed calls of `log` less than ws seconds before t.
RecentFailures(log, t, ws) == Cardinality({i \in DOMAIN log : t - log[i] < ws})

\* The state the breaker was in before its current one.
CbPrevState == state_path[Len(state_path) - 1]

\* C2: a call() made while the breaker is OPEN and no more than
\* timeout_seconds after it opened raises 'is OPEN', does not invoke the
\* wrapped function and changes neither the state, the counters nor the
\* failure history.
C2_OpenRejects ==
    [][(/\ cb_calls' = cb_calls + 1
        /\ state = OPEN
        /\ now - opened_at <= config.timeout_seconds) =>
        /\ \E c \in CbCallers :
              cpc[c] \in CbRest /\ cpc' = [cpc EXCEPT ![c] = "rejected"]
        /\ cb_invoked' = cb_invoked
        /\ UNCHANGED <<state, failure_count, success_count, failure_history,
                       last_failure_time, last_state_change>>]_vars

\* A call was rejected exactly timeout_seconds after the breaker opened.
C2_Witness ==
    /\ state = OPEN
    /\ rejected_at = opened_at + config.timeout_seconds
    /\ \E c \in CbCallers : cpc[c] = "rejected"

\* The moves of the breaker's state machine.
CbMoves == {<<CLOSED, OPEN>>, <<OPEN, HALF_OPEN>>,
            <<HALF_OPEN, CLOSED>>, <<HALF_OPEN, OPEN>>}

\* C3: the breaker starts CLOSED, its state is always CLOSED, OPEN or
\* HALF_OPEN, and under any interleaving of concurrent calls the state
\* changes only along CLOSED->OPEN, OPEN->HALF_OPEN, HALF_OPEN->CLOSED and
\* HALF_OPEN->OPEN.
C3_StateMachine ==
    /\ state = CLOSED
    /\ [](state \in CircuitState)
    /\ [][state' # state => <<state, state'>> \in CbMoves]_vars

\* The breaker went through every move.
C3_Witness ==
    state_path = <<CLOSED, OPEN, HALF_OPEN, OPEN, HALF_OPEN, CLOSED>>

\* C4: a CLOSED breaker moves to OPEN exactly on a failed call after which
\* at least failure_threshold failures lie within the last window_seconds;
\* a failed call that leaves fewer keeps it CLOSED.
C4_OpensOnThreshold ==
    [][state = CLOSED =>
        LET failed == Len(fail_log') = Len(fail_log) + 1
            recent == RecentFailures(fail_log', now', config.window_seconds)
        IN  /\ (state' = OPEN) <=>
                  (failed /\ recent >= config.failure_threshold)
            /\ (failed /\ recent < config.failure_threshold) =>
                  state' = CLOSED]_vars

\* The breaker opened from CLOSED on failures of which an older one had
\* left the window, and stayed CLOSED on an earlier failure.
C4_Witness ==
    /\ state = OPEN
    /\ Len(state_path) = 2
    /\ opened_at = now
    /\ config.failure_threshold = 2
    /\ Len(fail_log) = 3
    /\ RecentFailures(fail_log, now, config.window_seconds) = 2

\* C5 (as claimed): after a successful call while CLOSED, the breaker opens
\* only once failure_threshold further failures have occurred.
C5_SuccessResetsFailures ==
    [][(state = CLOSED /\ state' = OPEN /\ fresh_fails' >= 0) =>
        fresh_fails' >= config.failure_threshold]_vars

\* C6: the breaker enters HALF_OPEN only from OPEN, on a call() made
\* strictly more than timeout_seconds after it last opened; that call goes
\* on to the wrapped function and success_count is 0 on entry.
C6_HalfOpenAfterTimeout ==
    [][(state # HALF_OPEN /\ state' = HALF_OPEN) =>
        /\ state = OPEN
        /\ cb_calls' = cb_calls + 1
        /\ now - opened_at > config.timeout_seconds
        /\ \E c \in CbCallers :
              cpc[c] \in CbRest /\ cpc' = [cpc EXCEPT ![c] = "running"]
        /\ cb_invoked' = cb_invoked + 1
        /\ success_count' = 0]_vars

\* A call was rejected while the breaker was OPEN, and a later call, the
\* first made more than timeout_seconds after the opening, is in flight in
\* HALF_OPEN.
C6_Witness ==
    /\ state = HALF_OPEN
    /\ config.timeout_seconds > 0
    /\ rejected_at = opened_at + config.timeout_seconds
    /\ now = opened_at + config.timeout_seconds + 1
    /\ success_count = 0
    /\ \E c \in CbCallers : cpc[c] = "rejected"
    /\ \E c \in CbCallers : cpc[c] = "running"

\* C7: from HALF_OPEN the breaker moves to CLOSED exactly when
\* success_threshold calls have succeeded since HALF_OPEN was entered (a
\* failed call in between leaves HALF_OPEN for OPEN), and on closing
\* failure_count and success_count are both 0.
C7_ClosesAfterSuccesses ==
    [][state = HALF_OPEN =>
        LET succeeded == half_succ' = half_succ + 1
            failed == Len(fail_log') = Len(fail_log) + 1
        IN  /\ half_succ < config.success_threshold
            /\ (state' = CLOSED) <=>
                  (succeeded /\ half_succ' = config.success_threshold)
            /\ failed => state' = OPEN
            /\ state' = CLOSED => (failure_count' = 0 /\ success_count' = 0)]_vars

\* The breaker closed after two successes in HALF_OPEN.
C7_Witness ==
    /\ state = CLOSED
    /\ Len(state_path) > 1
    /\ CbPrevState = HALF_OPEN
    /\ config.success_threshold = 2
    /\ half_succ = 2
    /\ failure_count = 0
    /\ success_count = 0

(***************************************************************************)
(* Properties of the RetryPolicy                                           *)
(***************************************************************************)
\* The attempts that have finished and failed.
RpFailed == {i \in DOMAIN r_outcomes : ~r_outcomes[i].ok}

\* C8: for max_attempts >= 1, execute() invokes the function one attempt at
\* a time and at most max_attempts times, stops at the first attempt that
\* succeeds and returns its result, raises the last attempt's exception
\* after exactly max_attempts failed attempts, and waits only between two
\* attempts, never after the last one.
C8_RetryAttempts ==
    max_attempts >= 1 =>
        LET done == Len(r_outcomes)
        IN  /\ r_invoked <= max_attempts
            /\ r_invoked = done + (IF rpc = "calling" THEN 1 ELSE 0)
            /\ \A i \in 1..(done - 1) : ~r_outcomes[i].ok
            /\ (rpc = "returned") <=> (done > 0 /\ r_outcomes[done].ok)
            /\ rpc = "returned" => r_result = r_outcomes[done].val
            /\ (rpc = "raised") <=>
                  (done = max_attempts /\ RpFailed = DOMAIN r_outcomes)
            /\ rpc = "raised" => r_raised = r_outcomes[done].val
            /\ (rpc = "sleeping") <=>
                  (0 < done /\ done < max_attempts /\ r_invoked = done
                     /\ RpFailed = DOMAIN r_outcomes)
            /\ r_sleeps = Cardinality(RpFailed \ {max_attempts})

\* Every attempt of three failed: two waits, then the last exception.
C8_Witness ==
    /\ max_attempts = 3
    /\ rpc = "raised"
    /\ r_invoked = 3
    /\ r_sleeps = 2
    /\ r_outcomes[1].val = "e1"
    /\ r_raised = "e2"

(***************************************************************************)
(* Properties of resilient_call                                            *)
(***************************************************************************)
\* C10 (as claimed): whatever patterns are selected, func is invoked with
\* exactly the positional and keyword arguments the caller passed, and
\* resilient_call returns func's result when func succeeds.
C10_ArgumentsForwarded ==
    /\ \A i \in DOMAIN func_got : func_got[i] = rc_in
    /\ rc_pc = "returned" => (Len(func_got) > 0 /\ rc_result = rc_value)

\* C11 (as claimed): with two or more patterns selected each selected
\* pattern is applied exactly once around func (no pattern call is nested
\* inside a call of the same pattern), and a call that neither an OPEN
\* breaker nor a full bulkhead rejected has invoked func by the time
\* resilient_call ends.
C11_PatternsNestedOnce ==
    Cardinality(rc_sel) >= 2 =>
        /\ \A i, j \in DOMAIN rc_stack :
               i # j => rc_stack[i].pat # rc_stack[j].pat
        /\ (rc_pc \in {"returned", "raised"}
              /\ rc_raised \notin {"CircuitOpen", "QueueFull"})
           => Len(func_got) >= 1

(***************************************************************************)
(* Properties of the Bulkhead's queue counter                              *)
(***************************************************************************)
\* C19 (as claimed): queued_count is the number of admitted execute() calls
\* still waiting for a slot, never negative and never above max_queued,
\* also after calls whose wrapped function raised.
C19_QueuedCountExact ==
    /\ queued_count = Cardinality({c \in Callers : bpc[c] = "waiting"})
    /\ 0 <= queued_count
    /\ queued_count <= max_queued

(***************************************************************************)
(* Progress of admitted Bulkhead calls                                     *)
(***************************************************************************)
\* The paths of a call that was admitted, ran its function once and ended.
BhCompletedPaths ==
    {<<"running", "returned">>, <<"running", "raised">>,
     <<"waiting", "running", "returned">>, <<"waiting", "running", "raised">>}

\* C20: when every wrapped function ends and woken callers are scheduled,
\* every admitted execute() call (waiting for a slot or holding one) ends,
\* having obtained a slot and run its function exactly once.
C20_AdmittedCompletes ==
    \A c \in Callers :
        (bpc[c] \in {"waiting", "running"}) ~> (bh_path[c] \in BhCompletedPaths)

\* A call that had to queue for its slot ran its function and ended.
C20_Witness ==
    \E c \in Callers :
        bh_path[c] \in {<<"waiting", "running", "returned">>,
                       <<"waiting", "running", "raised">>}

(***************************************************************************)
(* Properties of the MetricsMonitor                                        *)
(***************************************************************************)
\* The step is a record_metric() call.
MmRecording == mm_records' = mm_records + 1

\* The point the record_metric() call of this step builds.
MmPoint == Metric(mm_last'.name, mm_last'.value, mm_now)

\* C12: after every step no series holds more than maxlen points and every
\* series is in recording order; record_metric puts the new point at the
\* end, keeps the points before it in place and drops the oldest one
\* exactly when the series already held maxlen points.
C12_SeriesBounded ==
    [][/\ \A n \in DOMAIN metrics' :
              /\ Len(metrics'[n]) <= SeriesMaxLen
              /\ \A i \in 1..(Len(metrics'[n]) - 1) :
                     metrics'[n][i].timestamp < metrics'[n][i + 1].timestamp
       /\ MmRecording =>
              LET old == MetricsOf(mm_last'.name)
                  new == metrics'[mm_last'.name]
                  kept == IF Len(old) = SeriesMaxLen THEN Tail(old) ELSE old
              IN  /\ new[Len(new)] = MmPoint
                  /\ SubSeq(new, 1, Len(new) - 1) = kept
                  /\ \A n \in DOMAIN metrics \ {mm_last'.name} :
                         metrics'[n] = metrics[n]]_vars

\* A full series has taken a new point and lost its oldest one.
C12_Witness ==
    /\ "m1" \in DOMAIN metrics
    /\ Len(metrics["m1"]) = SeriesMaxLen
    /\ metrics["m1"][1].timestamp > 0
    /\ mm_last.name = "m1"

\* The alert record_metric(name, value) is to append, as a sequence of zero
\* or one severities.
MmExpectedSeverity(name, value) ==
    IF name \in DOMAIN baselines /\ value >= baselines[name].threshold_critical
    THEN <<"critical">>
    ELSE IF name \in DOMAIN baselines
            /\ value >= baselines[name].threshold_warning
    THEN <<"warning">>
    ELSE <<>>

\* C13: no step removes or changes an alert; a record_metric(name, value)
\* call appends exactly the alert its baseline calls for (critical, else
\* warning, else none), for that metric and value, and records the point in
\* each case; no other step appends an alert.
C13_OneAlertPerRecord ==
    [][/\ Len(alerts') >= Len(alerts)
       /\ SubSeq(alerts', 1, Len(alerts)) = alerts
       /\ ~MmRecording => alerts' = alerts
       /\ MmRecording =>
              LET name == mm_last'.name
                  value == mm_last'.value
                  added == SubSeq(alerts', Len(alerts) + 1, Len(alerts'))
              IN  /\ [i \in DOMAIN added |-> added[i].severity]
                        = MmExpectedSeverity(name, value)
                  /\ \A i \in DOMAIN added :
                         added[i].metric = name /\ added[i].value = value
                  /\ metrics'[name][Len(metrics'[name])] = MmPoint]_vars

\* One monitor has answered record_metric calls with a critical alert and
\* with a warning alert, and one call on a metric with a baseline raised none.
C13_Witness ==
    /\ \E i, j \in DOMAIN alerts :
           alerts[i].severity = "critical" /\ alerts[j].severity = "warning"
    /\ mm_last.name \in DOMAIN baselines
    /\ mm_last.value < baselines[mm_last.name].threshold_warning
    /\ mm_records = Len(alerts) + 1

(***************************************************************************)
(* Properties of the SelfLearner                                           *)
(***************************************************************************)
\* The recorded experiences that used a strategy, and the successful ones.
SlUsed(strategy) ==
    {i \in DOMAIN experiences : experiences[i].strategy_used = strategy}

SlSucceeded(strategy) ==
    {i \in SlUsed(strategy) : experiences[i].outcome = "success"}

\* C14: on a learner that started without a knowledge base file, every
\* strategy used has an entry whose attempts is the number of recorded
\* experiences with it, whose successes is the number of those with outcome
\* 'success', with 0 <= successes <= attempts and success_rate =
\* successes / attempts; no strategy has two entries.
C14_StrategyCounters ==
    /\ \A strategy \in Strategies :
           SlUsed(strategy) # {} =>
               \E i \in DOMAIN strategy_performance :
                   strategy_performance[i].strategy = strategy
    /\ \A i, j \in DOMAIN strategy_performance :
           strategy_performance[i].strategy = strategy_performance[j].strategy
               => i = j
    /\ \A i \in DOMAIN strategy_performance :
           LET entry == strategy_performance[i]
           IN  /\ entry.attempts = Cardinality(SlUsed(entry.strategy))
               /\ entry.successes = Cardinality(SlSucceeded(entry.strategy))
               /\ 0 <= entry.successes
               /\ entry.successes <= entry.attempts
               /\ entry.attempts > 0
               /\ entry.success_rate[1] * entry.attempts
                      = entry.successes * entry.success_rate[2]

\* Two strategies were used; one of them failed once and succeeded once.
C14_Witness ==
    /\ Len(strategy_performance) = 2
    /\ \E i \in DOMAIN strategy_performance :
           /\ strategy_performance[i].attempts = 2
           /\ strategy_performance[i].successes = 1

\* The strategies that succeeded on a recorded task of a type.
SlLearned(task_type) ==
    {experiences[i].strategy_used : i \in
        {j \in DOMAIN experiences :
            /\ ClassifyTask(experiences[j].task_description) = task_type
            /\ experiences[j].outcome = "success"}}

\* C15 (as claimed): a suggest_strategy call changes no learner state and
\* returns: a strategy learned for the task's type (one that succeeded on
\* a task of that type) when the type's task_solution entry has
\* success_rate > 0.6; otherwise the first of optimized_strategies, a
\* strategy of highest success_rate, when there is one; otherwise
\* 'default_exploration' with confidence 0.3 and based_on_experiences 0.
C15_SuggestedStrategy ==
    [][sl_asks' = sl_asks + 1 =>
          /\ UNCHANGED <<experiences, knowledge_base, strategy_performance>>
          /\ LET task_type == ClassifyTask(sl_asked')
                 knowledge_key == "task_solution_" \o task_type
                 result == sl_suggested'
             IN  IF /\ knowledge_key \in DOMAIN knowledge_base
                    /\ FracGT(knowledge_base[knowledge_key].success_rate,
                              Frac(6, 10))
                 THEN result.strategy \in SlLearned(task_type)
                 ELSE IF strategy_performance # <<>>
                 THEN \E i \in DOMAIN strategy_performance :
                          /\ result.strategy = strategy_performance[i].strategy
                          /\ \A j \in DOMAIN strategy_performance :
                                 ~FracGT(strategy_performance[j].success_rate,
                                         strategy_performance[i].success_rate)
                 ELSE result = [strategy |-> "default_exploration",
                                confidence |-> Frac(3, 10),
                                based_on_experiences |-> 0]]_vars

(***************************************************************************)
(* Properties of the AutonomousAgent                                       *)
(***************************************************************************)
\* C16: a process_task call ends by returning its task, for the exceptions
\* (subclasses of Exception) that planning and the steps raise. Returned
\* 'completed': every plan step was run, in plan order, none of an unknown
\* action type, and result holds the steps' results in that order. Returned
\* 'failed': error is the text of the exception caught, result is unset, and
\* no step after the failing one was run.
C16_ProcessTaskReturns ==
    /\ ag_pc \in {"idle", "planning", "stepping", "done"}
    /\ ag_ran = [i \in 1..Len(ag_ran) |-> i]
    /\ Len(ag_ran) <= Len(plan)
    /\ ag_pc = "done" =>
           /\ task.status \in {"completed", "failed"}
           /\ task.status = "completed" =>
                  /\ ag_exc = "None"
                  /\ task.error = "None"
                  /\ Len(ag_ran) = Len(plan)
                  /\ \A i \in DOMAIN plan : plan[i].action \in KnownActions
                  /\ task.result = [i \in DOMAIN plan |-> StepResult(plan[i])]
           /\ task.status = "failed" =>
                  /\ ag_exc # "None"
                  /\ task.error = ag_exc
                  /\ task.result = NoResult
                  /\ Len(results) = (IF ag_ran = <<>> THEN 0 ELSE Len(ag_ran) - 1)
                  /\ \A i \in DOMAIN plan :
                         (plan[i].action \notin KnownActions) => Len(ag_ran) <= i

\* A task failed on the unknown action type of its second step, after its
\* first step had succeeded.
C16_Witness ==
    /\ ag_pc = "done"
    /\ task.status = "failed"
    /\ Len(plan) = 2
    /\ ag_ran = <<1, 2>>
    /\ plan[2].action \notin KnownActions
    /\ task.error = "Unknown action type: fly"

C18_FileKeptUnlessValidated ==
    [][Len(rf_results') > Len(rf_results) =>
         LET result == rf_results'[Len(rf_results')]
         IN  /\ rf_file' # rf_file =>
                   /\ refactored'.parses
                   /\ 5 * refactored'.funcs >= 4 * original_code'.funcs
             /\ ~result =>
                   /\ rf_file' = rf_file
                   /\ refactoring_history' = refactoring_history]_vars

====
